---- MODULE Spec2Model ----
(***************************************************************************)
(* Model of the notes-digest ingestion pipeline (behole/scribble):         *)
(* LLMService JSON-array extraction, the file processors, the PDF text     *)
(* recovery cascade, NotesProcessor.process_file and the sqlite store.     *)
(***************************************************************************)
EXTENDS Integers, Sequences, FiniteSets, TLC

VARIABLES
    llm_response,   \* text returned by LLMService._call_api (chars) or None
    llm_extracted,  \* value returned by extract_tasks / extract_tags
    llm_mode,       \* "none": no llm_service; "nokey": LLMService without
                    \* api_key; "live": LLMService with a key
    pdf,            \* the locals of a running PDFProcessor.process call
    fs,             \* the notes folder: path -> what the file holds
    db,             \* the sqlite tables and their AUTOINCREMENT counters
    pf,             \* NotesProcessor.process_file: the running call, and
                    \* the outcome of the last one
    calls,          \* number of process_file calls made
    edits,          \* number of changes the user made (a file of the
                    \* folder rewritten, a task ticked on the dashboard)
    heur,           \* a text and what the regex extraction found in it
    dg,             \* DigestGenerator: clock, content and digests tables,
                    \* and the outcome of the last generate_* call
    tl,             \* the tasks table and the last get_tasks result
    api,            \* a running LLMService._call_api(_with_image) call
    hd,             \* NotesEventHandler: processed_files, the event being
                    \* handled, and the log of processor invocations
    tg,             \* concurrent add_tags callers and their connections
    bk              \* EnhancedProcessor.process_backlog: the running call
                    \* and what the LLM answered in the last two runs

jsonVars == <<llm_response, llm_extracted>>
storeVars == <<fs, db, pf, calls, edits>>
auxVars == <<heur, dg, tl, api, hd, tg, bk>>
vars == <<llm_response, llm_extracted, llm_mode, pdf, fs, db, pf, calls, edits,
          heur, dg, tl, api, hd, tg, bk>>

\* Python's None where a text (a sequence of characters or of tokens) is
\* expected: a sequence no text is equal to.
None == <<"<None>">>

\* Python truthiness of an optional text.
Truthy(t) == t # None /\ t # <<>>

----------------------------------------------------------------------------
(* Bounds *)

MaxRespLen == 4
MaxPages == 2
MaxCalls == 2
MaxEdits == 1
MaxTextLen == 3
MaxTicks == 2
MaxContent == 2
MaxDigests == 2
MaxTasks == 3
NumCallers == 2
MaxRuns == 2

----------------------------------------------------------------------------
(* Python values returned by json.loads *)

PyStr(t) == [kind |-> "str", items |-> <<>>, text |-> t]
PyNum(t) == [kind |-> "num", items |-> <<>>, text |-> t]
PyList(xs) == [kind |-> "list", items |-> xs, text |-> <<>>]
PyDict == [kind |-> "dict", items |-> <<>>, text |-> <<>>]

QUOTE == "\""

\* The characters a response is made of: brackets, braces, the double
\* quote, the comma, a letter and a digit.
RespChars == {"[", "]", QUOTE, ",", "a", "1", "{", "}"}

Fail == [ok |-> FALSE, next |-> 0, val |-> PyDict]

Ok(n, v) == [ok |-> TRUE, next |-> n, val |-> v]

\* First position >= i of s that does not hold character c (Len(s)+1 if none).
RECURSIVE SkipWhile(_, _, _)
SkipWhile(s, i, c) ==
    IF i <= Len(s) /\ s[i] = c THEN SkipWhile(s, i + 1, c) ELSE i

\* First position >= i of s that holds character c (Len(s)+1 if none).
RECURSIVE FindChar(_, _, _)
FindChar(s, i, c) ==
    IF i > Len(s) \/ s[i] = c THEN i ELSE FindChar(s, i + 1, c)

\* json.loads' scanner: parse one JSON value of s starting at position i.
RECURSIVE ParseValue(_, _)
RECURSIVE ParseElems(_, _, _)
ParseValue(s, i) ==
    IF i > Len(s) THEN Fail
    ELSE IF s[i] = QUOTE THEN
        LET j == FindChar(s, i + 1, QUOTE) IN
        IF j > Len(s) THEN Fail
        ELSE Ok(j + 1, PyStr(SubSeq(s, i + 1, j - 1)))
    ELSE IF s[i] = "1" THEN
        LET j == SkipWhile(s, i, "1") IN Ok(j, PyNum(SubSeq(s, i, j - 1)))
    ELSE IF s[i] = "{" THEN
        IF i + 1 <= Len(s) /\ s[i + 1] = "}" THEN Ok(i + 2, PyDict) ELSE Fail
    ELSE IF s[i] = "[" THEN
        IF i + 1 <= Len(s) /\ s[i + 1] = "]" THEN Ok(i + 2, PyList(<<>>))
        ELSE ParseElems(s, i + 1, <<>>)
    ELSE Fail

\* The elements of an array after '[' or ',': value, then ',' or ']'.
ParseElems(s, i, acc) ==
    LET r == ParseValue(s, i) IN
    IF ~r.ok THEN Fail
    ELSE IF r.next > Len(s) THEN Fail
    ELSE IF s[r.next] = "]" THEN Ok(r.next + 1, PyList(Append(acc, r.val)))
    ELSE IF s[r.next] = "," THEN ParseElems(s, r.next + 1, Append(acc, r.val))
    ELSE Fail

\* json.loads(s): the whole text must be one value; otherwise JSONDecodeError.
json_loads(s) ==
    LET r == ParseValue(s, 1) IN
    IF r.ok /\ r.next = Len(s) + 1
    THEN [raised |-> FALSE, val |-> r.val]
    ELSE [raised |-> TRUE, val |-> PyDict]

\* Whether '[' '"' ... '"' ']' can be matched from position i to position j.
ArrayPatternAt(s, i, j) ==
    /\ i + 3 <= j
    /\ s[i] = "["
    /\ s[i + 1] = QUOTE
    /\ s[j - 1] = QUOTE
    /\ s[j] = "]"

\* re.search(r'\[\s*".*"\s*\]', response, re.DOTALL): leftmost start, and
\* for that start the longest match (.* is greedy). <<0, 0>> when no match.
re_search_array(s) ==
    LET starts == {i \in 1..Len(s) : \E j \in 1..Len(s) : ArrayPatternAt(s, i, j)}
    IN  IF starts = {} THEN <<0, 0>>
        ELSE LET i == CHOOSE x \in starts : \A y \in starts : x <= y
                 ends == {j \in 1..Len(s) : ArrayPatternAt(s, i, j)}
                 j == CHOOSE x \in ends : \A y \in ends : y <= x
             IN <<i, j>>

\* The part of extract_tasks / extract_tags after the API call
\* (llm_service.py 298-313 and 332-347): the permissive JSON-array parse.
\* A JSONDecodeError / ValueError is caught and yields [].
parse_array_response(response) ==
    IF ~Truthy(response) THEN PyList(<<>>)
    ELSE LET m == re_search_array(response)
             r == IF m[1] # 0 THEN json_loads(SubSeq(response, m[1], m[2]))
                  ELSE json_loads(response)
         IN IF r.raised THEN PyList(<<>>) ELSE r.val

\* LLMService.extract_tasks(text), given the response of its _call_api.
extract_tasks(text, response) ==
    IF ~Truthy(text) THEN PyList(<<>>)
    ELSE parse_array_response(response)

\* LLMService.extract_tags(text), given the response of its _call_api.
extract_tags(text, response) ==
    IF ~Truthy(text) THEN PyList(<<>>)
    ELSE parse_array_response(response)

----------------------------------------------------------------------------
(* Texts are sequences of tokens (words, hashtags, task markers and the   *)
(* line break "\n"); the heuristic extraction of BaseProcessor works on   *)
(* them.                                                                   *)

NL == "\n"

\* A blank (space or tab) beyond the single space that separates two tokens.
SP == " "

\* Tokens in which re.findall(r'#(\w+)') finds a hashtag, and the tag found.
HashtagTokens == {"#work", "#home", "#read", "#scan"}

TagOf(tok) ==
    CASE tok = "#work" -> "work"
      [] tok = "#home" -> "home"
      [] tok = "#read" -> "read"
      [] tok = "#scan" -> "scan"

\* markers of _extract_tasks; '[] ' needs a character after the brackets.
Markers == {"- [ ]", "* [ ]", "TODO:", "TASK:"}
MarkerWithSpace == "[]"

\* A value a result holds under 'tags' or 'tasks': what iterating it gives
\* (iter = FALSE: not iterable, e.g. an int) and its truthiness.
IterVal(xs) == [iter |-> TRUE, truthy |-> xs # <<>>, items |-> xs]
NotIterable == [iter |-> FALSE, truthy |-> TRUE, items |-> <<>>]

RECURSIVE _extract_tags(_)
_extract_tags(text) ==
    IF ~Truthy(text) THEN <<>>
    ELSE LET rest == _extract_tags(Tail(text)) IN
         IF Head(text) \in HashtagTokens THEN <<TagOf(Head(text))>> \o rest
         ELSE rest

\* text.split('\n') (a line is a sequence of tokens).
RECURSIVE SplitLines(_, _)
SplitLines(text, cur) ==
    IF text = <<>> THEN <<cur>>
    ELSE IF Head(text) = NL THEN <<cur>> \o SplitLines(Tail(text), <<>>)
    ELSE SplitLines(Tail(text), Append(cur, Head(text)))

\* str.strip() keeping every blank.
Strip_Keep(line) == line

\* str.strip(): the blanks at both ends are removed.
RECURSIVE Strip(_)
Strip(line) ==
    IF line = <<>> THEN <<>>
    ELSE IF Head(line) = SP THEN Strip(Tail(line))
    ELSE IF line[Len(line)] = SP THEN Strip(SubSeq(line, 1, Len(line) - 1))
    ELSE line

\* lines 44-49: the stripped line starts with a marker; the task is the
\* rest of the line, stripped.
RECURSIVE TasksOfLines(_)
TasksOfLines(lines) ==
    IF lines = <<>> THEN <<>>
    ELSE LET line == Strip(Head(lines))
             rest == TasksOfLines(Tail(lines))
         IN IF line # <<>> /\ line[1] \in Markers
            THEN <<Strip(Tail(line))>> \o rest
            ELSE IF Len(line) >= 2 /\ line[1] = MarkerWithSpace
                 THEN <<Strip(Tail(line))>> \o rest
            ELSE rest

_extract_tasks(text) ==
    IF ~Truthy(text) THEN <<>> ELSE TasksOfLines(SplitLines(text, <<>>))

----------------------------------------------------------------------------
(* The files of the notes folder *)

Paths == {"n1.txt", "n2.txt", "p.pdf", "l.url", "i.png", "w.html",
          "chat1.json", "x.bin"}

\* os.path.splitext(path)[1].lower()
Ext(path) ==
    CASE path \in {"n1.txt", "n2.txt"} -> ".txt"
      [] path = "p.pdf" -> ".pdf"
      [] path = "l.url" -> ".url"
      [] path = "i.png" -> ".png"
      [] path = "w.html" -> ".html"
      [] path = "chat1.json" -> ".json"
      [] path = "x.bin" -> ".bin"

\* 'chat' in os.path.basename(path).lower()
NameHasChat(path) == path = "chat1.json"

\* NotesEventHandler._determine_file_type
_determine_file_type(path) ==
    LET ext == Ext(path) IN
    IF ext \in {".jpg", ".jpeg", ".png", ".gif", ".bmp"} THEN "image"
    ELSE IF ext \in {".pdf"} THEN "pdf"
    ELSE IF ext \in {".txt", ".md", ".rtf", ".doc", ".docx"} THEN "document"
    ELSE IF ext \in {".html", ".htm"} THEN "web_clip"
    ELSE IF ext \in {".url", ".webloc"} THEN "url"
    ELSE IF ext \in {".json"} /\ NameHasChat(path) THEN "ai_chat"
    ELSE "unknown"

\* What a file can hold. Missing: the file cannot be opened.
Missing == "missing"

NoteA == <<"#work", "finish", "the", "report", NL, "TODO:", "email", "Sarah">>
NoteB == <<"plain", "words">>
UrlA  == <<"[InternetShortcut]", NL, "URL=http://example.com", NL, "#read", "later">>
UrlNone == <<"[InternetShortcut]">>
HtmlA == <<"Clipped", "page", NL, "#read", "this">>
ChatA == <<"user:", "TODO:", "call", "Bob", NL, NL, "assistant:", "ok", NL, NL>>

\* utf8: open(..., encoding='utf-8').read() succeeds; text: what it reads;
\* url: whether re.search(r'URL=(.+)') finds a URL in it.
FileData(c) ==
    CASE c = "noteA"   -> [utf8 |-> TRUE,  text |-> NoteA,   url |-> FALSE]
      [] c = "noteB"   -> [utf8 |-> TRUE,  text |-> NoteB,   url |-> FALSE]
      [] c = "urlA"    -> [utf8 |-> TRUE,  text |-> UrlA,    url |-> TRUE]
      [] c = "urlNone" -> [utf8 |-> TRUE,  text |-> UrlNone, url |-> FALSE]
      [] c = "htmlA"   -> [utf8 |-> TRUE,  text |-> HtmlA,   url |-> FALSE]
      [] c = "chatA"   -> [utf8 |-> TRUE,  text |-> ChatA,   url |-> FALSE]
      [] OTHER         -> [utf8 |-> FALSE, text |-> <<>>,    url |-> FALSE]

\* hashlib.md5(bytes).hexdigest(): equal bytes, equal digest.
md5(c) == c

----------------------------------------------------------------------------
(* Extractors (file_processors.py). Each returns a result dict, None, or   *)
(* raises.                                                                 *)

Result(raw, processed, tags, tasks) ==
    [raised |-> FALSE, none |-> FALSE, raw_text |-> raw,
     processed_text |-> processed, tags |-> tags, tasks |-> tasks]

ReturnsNone ==
    [raised |-> FALSE, none |-> TRUE, raw_text |-> None,
     processed_text |-> None, tags |-> IterVal(<<>>), tasks |-> IterVal(<<>>)]

Raises ==
    [raised |-> TRUE, none |-> FALSE, raw_text |-> None,
     processed_text |-> None, tags |-> IterVal(<<>>), tasks |-> IterVal(<<>>)]

\* BaseProcessor.process: raise NotImplementedError
BaseProcessor_process(c) == Raises

\* DocumentProcessor.process: read as utf-8; any exception gives None.
DocumentProcessor_process(c) ==
    IF c = Missing \/ ~FileData(c).utf8 THEN ReturnsNone
    ELSE LET extracted_text == FileData(c).text IN
         Result(extracted_text, None,
                IterVal(_extract_tags(extracted_text)),
                IterVal(_extract_tasks(extracted_text)))

\* What pytesseract.image_to_string gives for an image file.
ImageOcrOutcomes == {"raise", "empty", "text"}

ImageOcrText == <<"#home", "buy", "milk">>

\* ImageProcessor.process: Image.open, then OCR; any exception gives None.
ImageProcessor_process(c, ocr) ==
    IF c # "imgA" \/ ocr = "raise" THEN ReturnsNone
    ELSE LET extracted_text == IF ocr = "text" THEN ImageOcrText ELSE <<>> IN
         Result(extracted_text, None,
                IterVal(_extract_tags(extracted_text)),
                IterVal(_extract_tasks(extracted_text)))

\* WebClipProcessor.process: read as utf-8, strip the markup.
WebClipProcessor_process(c) ==
    IF c = Missing \/ ~FileData(c).utf8 THEN ReturnsNone
    ELSE LET extracted_text == FileData(c).text IN
         Result(extracted_text, None,
                IterVal(_extract_tags(extracted_text)),
                IterVal(_extract_tasks(extracted_text)))

\* AIChatProcessor.process: read as utf-8; the turns as 'role: content'
\* lines, or the flat text when the file is not JSON.
AIChatProcessor_process(c) ==
    IF c = Missing \/ ~FileData(c).utf8 THEN ReturnsNone
    ELSE LET extracted_text == FileData(c).text IN
         Result(extracted_text, None,
                IterVal(_extract_tags(extracted_text)),
                IterVal(_extract_tasks(extracted_text)))

\* What requests.get + raise_for_status can do.
FetchOutcomes == {"ok", "timeout", "http_error", "dns_error"}

FetchedPage == <<"Example", "Domain">>

\* URLProcessor.process returning an empty record when the fetch fails.
URLProcessor_process_EmptyRecord(c, fetch) ==
    IF c = Missing \/ ~FileData(c).utf8 THEN [out |-> ReturnsNone, fetches |-> 0]
    ELSE IF ~FileData(c).url THEN [out |-> ReturnsNone, fetches |-> 0]
    ELSE [out |-> Result(IF fetch = "ok" THEN FetchedPage ELSE <<>>, None,
                         IterVal(_extract_tags(FileData(c).text)),
                         IterVal(_extract_tasks(FileData(c).text))),
          fetches |-> 1]

\* URLProcessor.process for a .url file; fetch is the outcome of the one
\* requests.get call it makes (fetches counts the calls made).
URLProcessor_process(c, fetch) ==
    IF c = Missing \/ ~FileData(c).utf8 THEN [out |-> ReturnsNone, fetches |-> 0]
    ELSE IF ~FileData(c).url THEN [out |-> ReturnsNone, fetches |-> 0]
    ELSE IF fetch # "ok" THEN [out |-> ReturnsNone, fetches |-> 1]
    ELSE LET original_content == FileData(c).text IN
         [out |-> Result(FetchedPage, None,
                         IterVal(_extract_tags(original_content)),
                         IterVal(_extract_tasks(original_content))),
          fetches |-> 1]

----------------------------------------------------------------------------
(* What the LLM calls of the pipeline can answer *)

CleanText == <<"LLM_CLEAN">>
SummaryText == <<"LLM_SUMMARY">>
VisionText(i) == <<"VISION", ToString(i)>>

\* _call_api returns None without a key (llm_service.py 25-27); with a key
\* it returns the text of the response or None.
LlmTextAnswers(mode, text) == IF mode = "live" THEN {None, text} ELSE {None}

\* Responses to the task and tag prompts: a JSON array, a bare number,
\* prose, or nothing.
ArrayResponse == <<"[", QUOTE, "a", QUOTE, "]">>
LlmListAnswers(mode) ==
    IF mode = "live" THEN {None, ArrayResponse, <<"1">>, <<"a">>} ELSE {None}

RECURSIVE Join(_)
Join(chars) == IF chars = <<>> THEN "" ELSE Head(chars) \o Join(Tail(chars))

ItemName(v) == IF v.kind \in {"str", "num"} THEN Join(v.text) ELSE v.kind

\* What iterating the value returned by extract_tags gives (tag names).
TagsIter(v) ==
    CASE v.kind = "list" -> IterVal([k \in 1..Len(v.items) |-> ItemName(v.items[k])])
      [] v.kind = "str"  -> IterVal(v.text)
      [] v.kind = "dict" -> IterVal(<<>>)
      [] v.kind = "num"  -> NotIterable

\* What iterating the value returned by extract_tasks gives (task texts).
TasksIter(v) ==
    CASE v.kind = "list" -> IterVal([k \in 1..Len(v.items) |-> <<ItemName(v.items[k])>>])
      [] v.kind = "str"  -> IterVal([k \in 1..Len(v.text) |-> <<v.text[k]>>])
      [] v.kind = "dict" -> IterVal(<<>>)
      [] v.kind = "num"  -> NotIterable

----------------------------------------------------------------------------
(* PDFProcessor.process (file_processors.py 95-347) as a sequence of steps *)

HandwritingThreshold == 20
MinOcrChars == 50

Words(n) == [k \in 1..n |-> "w"]
EmptyPage == <<>>
ShortPage == <<"#scan", "TODO:", "sign">>
Page19 == <<"#work">> \o Words(18)
Page20 == <<"#work", NL, "TODO:", "file", "taxes", NL>> \o Words(16)
PageTexts == {EmptyPage, ShortPage, Page19, Page20}

\* len(text.split())
RECURSIVE WordCount(_)
WordCount(text) ==
    IF text = <<>> THEN 0
    ELSE (IF Head(text) = NL THEN 0 ELSE 1) + WordCount(Tail(text))

\* The loop of lines 109-114: page_text + "\n\n" for every page with text.
RECURSIVE DirectText(_)
DirectText(pages) ==
    IF pages = <<>> THEN <<>>
    ELSE (IF Head(pages) # <<>> THEN Head(pages) \o <<NL, NL>> ELSE <<>>)
         \o DirectText(Tail(pages))

\* words_per_page < 20, with words_per_page = words / max(1, pages)
MightBeHandwritten(extracted_text, npages) ==
    WordCount(extracted_text) < HandwritingThreshold * (IF npages < 1 THEN 1 ELSE npages)

\* line 131: whether the image conversion is entered
RenderingEntered(mode, extracted_text, might_be_handwritten) ==
    mode # "none" /\ (extracted_text = <<>> \/ might_be_handwritten)

PdfInputs ==
    {[kind |-> k, pages |-> <<>>] : k \in {"invalid", "missing"}}
    \cup {[kind |-> "ok", pages |-> ps] :
            ps \in UNION {[1..n -> PageTexts] : n \in 0..MaxPages}}

\* What a call did. first, second: what pdf2image and PyMuPDF did ("n/a":
\* not tried); created: the page images saved; ocr_calls, vision_calls:
\* the page images handed to pytesseract and to analyze_image; ocr_raised:
\* those on which pytesseract raised.
NoTrace == [render_entered |-> FALSE, first |-> "n/a", second |-> "n/a",
            ocr_calls |-> {}, ocr_raised |-> {}, vision_calls |-> {},
            created |-> {}, outer_except |-> FALSE]

PdfIdle ==
    [pc |-> "idle", input |-> [kind |-> "ok", pages |-> <<>>],
     extracted_text |-> <<>>, direct_text |-> <<>>,
     might_be_handwritten |-> FALSE,
     images_extracted |-> FALSE, temp_images |-> <<>>, page_images |-> <<>>,
     disk |-> {}, i |-> 0, combined_text |-> <<>>, ocr_text |-> <<>>,
     vision_text |-> <<>>,
     processed_text |-> None, raw_text |-> None, raw_text_set |-> FALSE,
     full_text |-> <<>>,
     tags |-> IterVal(<<>>), tasks |-> IterVal(<<>>),
     result |-> ReturnsNone, trace |-> NoTrace]

PdfCall(input) == [PdfIdle EXCEPT !.pc = "start", !.input = input]

ErrorMessage(input) ==
    IF input.kind = "missing" THEN "No such file or directory"
    ELSE "EOF marker not found"

\* lines 333-347: the outer handler returns a minimal response.
OuterExcept(p, msg) ==
    [p EXCEPT !.pc = "done",
              !.trace.outer_except = TRUE,
              !.result = Result(<<"Error processing PDF:", msg>>,
                                <<"This PDF could not be processed due to an error:", msg>>,
                                IterVal(<<"error", "pdf">>), IterVal(<<>>))]

\* lines 97-131: open the file, extract the text of every page, decide
\* whether the pages are rendered.
PdfStart ==
    /\ pdf.pc = "start"
    /\ IF pdf.input.kind # "ok"
       THEN pdf' = OuterExcept(pdf, ErrorMessage(pdf.input))
       ELSE LET extracted_text == DirectText(pdf.input.pages)
                might == MightBeHandwritten(extracted_text, Len(pdf.input.pages))
                render == RenderingEntered(llm_mode, extracted_text, might)
            IN pdf' = [pdf EXCEPT !.extracted_text = extracted_text,
                                  !.direct_text = extracted_text,
                                  !.might_be_handwritten = might,
                                  !.trace.render_entered = render,
                                  !.pc = IF render THEN "render" ELSE "llm"]
    /\ UNCHANGED <<llm_mode>>

\* What 'import pdf2image' and convert_from_path can do, and what
\* 'import fitz' and fitz.open can do.
Pdf2ImageOutcomes == {"import_error", "ok", "poppler_error", "other_error"}
FitzOutcomes == {"import_error", "open_error", "ok"}

\* lines 229-231 (after the page loop): the text read from the images
\* replaces the directly extracted text.
AfterPageLoop(p) ==
    [p EXCEPT !.extracted_text = IF p.combined_text # <<>> THEN p.combined_text
                                 ELSE p.extracted_text,
              !.pc = "llm"]

\* lines 132-195 up to the first page: pick the rendering backend.
\*  - ImportError of pdf2image or of fitz: caught at 233.
\*  - convert_from_path succeeded: images_extracted is set at 147, so the
\*    block at 182 that saves the pages is skipped and page_images stays [].
\*  - an error without 'poppler' in its text, or fitz.open failing: caught
\*    at 236.
PdfRender ==
    /\ pdf.pc = "render"
    /\ \E b1 \in Pdf2ImageOutcomes, b2 \in FitzOutcomes :
         LET p1 == [pdf EXCEPT !.trace.first = b1]
             p2 == [p1 EXCEPT !.trace.second = b2]
         IN
         pdf' = CASE b1 = "import_error" -> [p1 EXCEPT !.pc = "llm"]
                  [] b1 = "other_error" -> [p1 EXCEPT !.pc = "llm"]
                  [] b1 = "ok" ->
                       AfterPageLoop([p1 EXCEPT !.images_extracted = TRUE])
                  [] b1 = "poppler_error" /\ b2 # "ok" -> [p2 EXCEPT !.pc = "llm"]
                  [] b1 = "poppler_error" /\ b2 = "ok" ->
                       IF Len(pdf.input.pages) = 0
                       THEN AfterPageLoop([p2 EXCEPT !.images_extracted = TRUE])
                       ELSE [p2 EXCEPT !.pc = "fitz_page", !.i = 1]
    /\ UNCHANGED <<llm_mode>>

\* lines 163-171: render page i with PyMuPDF and save it as a temporary
\* image; an error on a page is caught at 236.
PdfFitzPage ==
    /\ pdf.pc = "fitz_page"
    /\ \E ok \in BOOLEAN :
         IF ~ok THEN pdf' = [pdf EXCEPT !.pc = "llm"]
         ELSE LET q == [pdf EXCEPT !.disk = @ \cup {pdf.i},
                                   !.trace.created = @ \cup {pdf.i},
                                   !.page_images = Append(@, pdf.i),
                                   !.temp_images = Append(@, pdf.i)]
              IN IF pdf.i < Len(pdf.input.pages)
                 THEN pdf' = [q EXCEPT !.i = pdf.i + 1]
                 ELSE pdf' = [q EXCEPT !.images_extracted = TRUE,
                                       !.pc = "ocr", !.i = 1]
    /\ UNCHANGED <<llm_mode>>

\* What pytesseract.image_to_string gives for a page image: it raises, or
\* returns a text of some length in characters.
OcrOutcomes ==
    { [raised |-> TRUE,  text |-> <<>>, chars |-> 0],
      [raised |-> FALSE, text |-> <<>>, chars |-> 0],
      [raised |-> FALSE, text |-> <<"~", "#scan">>, chars |-> MinOcrChars],
      [raised |-> FALSE, text |-> <<"scanned", "#home", NL, "TODO:", "pay", "rent">>,
       chars |-> MinOcrChars + 1] }

\* An OCR error that leaves the page loop, to the handler of line 236.
OcrExcept_Abort(p) ==
    [p EXCEPT !.trace.ocr_raised = @ \cup {p.page_images[p.i]}, !.pc = "llm"]

\* lines 209-210: the handler of the OCR of one page; the vision call on
\* the page comes next.
OcrExcept(p) ==
    [p EXCEPT !.trace.ocr_raised = @ \cup {p.page_images[p.i]}, !.pc = "vision"]

\* lines 202-210: OCR of page image i.
PdfOcr ==
    /\ pdf.pc = "ocr"
    /\ \E o \in OcrOutcomes :
         LET use == o.text # <<>> /\ o.chars > MinOcrChars
             q == [pdf EXCEPT !.trace.ocr_calls = @ \cup {pdf.page_images[pdf.i]},
                              !.pc = "vision"]
         IN pdf' = IF o.raised THEN OcrExcept(q)
                   ELSE IF use
                   THEN [q EXCEPT !.combined_text =
                                     @ \o <<"Page", ToString(pdf.i) \o ":", NL>>
                                       \o o.text \o <<NL, NL>>,
                                  !.ocr_text = @ \o o.text \o <<NL, NL>>]
                   ELSE q
    /\ UNCHANGED <<llm_mode>>

\* LLMService.analyze_image (llm_service.py 204-219): None when the image
\* file does not exist, else the answer of the API call; never raises.
analyze_image(exists, answer) == IF ~exists THEN None ELSE answer

\* lines 212-227: the vision call on page image i, then the next page.
\* vision_text: the sections of combined_text that come from the vision
\* call.
PdfVision ==
    /\ pdf.pc = "vision"
    /\ \E a \in LlmTextAnswers(llm_mode, VisionText(pdf.i)) :
         LET img == pdf.page_images[pdf.i]
             image_analysis == analyze_image(img \in pdf.disk, a)
             section == IF Truthy(image_analysis)
                        THEN <<"Page", ToString(pdf.i), "(analyzed by Claude):", NL>>
                             \o image_analysis \o <<NL, NL>>
                        ELSE <<>>
             q == [pdf EXCEPT !.trace.vision_calls = @ \cup {img},
                              !.combined_text = @ \o section,
                              !.vision_text = @ \o section]
         IN pdf' = IF pdf.i < Len(pdf.page_images)
                   THEN [q EXCEPT !.pc = "ocr", !.i = pdf.i + 1]
                   ELSE AfterPageLoop(q)
    /\ UNCHANGED <<llm_mode>>

Range(f) == {f[k] : k \in DOMAIN f}

\* x or y, for texts
Or(x, y) == IF Truthy(x) THEN x ELSE y

\* lines 253-259: the text handed to the LLM.
FullText(extracted_text, ocr_text) ==
    IF ocr_text # <<>> /\ extracted_text # <<>> /\ "Page" \in Range(extracted_text)
    THEN extracted_text
    ELSE IF ocr_text # <<>> /\ extracted_text # <<>>
    THEN <<"Text extracted directly from PDF:", NL>> \o extracted_text
         \o <<NL, NL, "Text extracted via OCR:", NL>> \o ocr_text
    ELSE Or(extracted_text, ocr_text)

\* lines 241-286, the body of the try block with an llm_service: clean and
\* summary are the answers of clean_extraction and summarize_content, tr
\* and gr the responses to the task and tag prompts. exc: the block raised
\* (processed_text[:100] with processed_text None is a TypeError).
LlmBlock(p, clean, summary, tr, gr) ==
    LET no_text == p.extracted_text = <<>> /\ p.ocr_text = <<>>
        full_text == IF no_text THEN <<>> ELSE FullText(p.extracted_text, p.ocr_text)
        raw_set == ~no_text /\ Truthy(clean)
        exc == ~Truthy(summary)
        task_source == Or(p.extracted_text, Or(p.ocr_text, summary))
        q == [p EXCEPT !.full_text = full_text,
                       !.raw_text = IF raw_set THEN clean ELSE @,
                       !.raw_text_set = raw_set,
                       !.processed_text = summary]
    IN  IF exc THEN [exc |-> TRUE, p |-> q]
        ELSE [exc |-> FALSE,
              p |-> [q EXCEPT !.tasks = TasksIter(extract_tasks(task_source, tr)),
                              !.tags = TagsIter(extract_tags(task_source, gr))]]

LlmFailedText(p) ==
    <<"LLM processing failed:", "'NoneType' object is not subscriptable.",
      "PDF contains",
      IF p.extracted_text # <<>> THEN "text content"
      ELSE "no extractable text and may be image-based">>

\* The handler of the LLM block raising again, to the outer handler.
LlmExcept_Reraise(p) == OuterExcept(p, "'NoneType' object is not subscriptable")

\* lines 287-291: the handler of the LLM block.
LlmExcept(p) ==
    [p EXCEPT !.processed_text = LlmFailedText(p),
              !.tasks = IterVal(<<>>),
              !.tags = IterVal(<<"pdf", "scan">>),
              !.pc = "cleanup"]

\* lines 292-298: no llm_service, regex extraction.
BasicExtraction(p) ==
    LET tags == _extract_tags(p.extracted_text) IN
    [p EXCEPT !.tasks = IterVal(_extract_tasks(p.extracted_text)),
              !.tags = IF tags = <<>> /\ p.extracted_text = <<>>
                       THEN IterVal(<<"pdf", "scan">>) ELSE IterVal(tags),
              !.pc = "cleanup"]

\* lines 239-298
PdfLLM ==
    /\ pdf.pc = "llm"
    /\ IF llm_mode # "none"
       THEN \E clean \in LlmTextAnswers(llm_mode, CleanText),
               summary \in LlmTextAnswers(llm_mode, SummaryText),
               tr \in LlmListAnswers(llm_mode), gr \in LlmListAnswers(llm_mode) :
              LET b == LlmBlock(pdf, clean, summary, tr, gr) IN
              pdf' = IF b.exc THEN LlmExcept(b.p) ELSE [b.p EXCEPT !.pc = "cleanup"]
       ELSE pdf' = BasicExtraction(pdf)
    /\ UNCHANGED <<llm_mode>>

OcrOnlyText(ocr_text) == <<"Text extracted via OCR:", NL>> \o ocr_text
Placeholder == <<"No text could be extracted - may be image-based PDF">>

\* lines 310-317: raw_text when the LLM block did not set it.
FinalRawText(p) ==
    IF p.raw_text_set THEN p.raw_text
    ELSE IF p.extracted_text # <<>> THEN p.extracted_text
    ELSE IF p.ocr_text # <<>> THEN OcrOnlyText(p.ocr_text)
    ELSE Placeholder

\* lines 300-306: os.remove of every path in temp_images that exists.
CleanUp(disk, temp_images) == disk \ Range(temp_images)

\* lines 300-332: remove the temporary images, build the result.
PdfCleanup ==
    /\ pdf.pc = "cleanup"
    /\ pdf' = [pdf EXCEPT !.disk = CleanUp(pdf.disk, pdf.temp_images),
                          !.raw_text = FinalRawText(pdf),
                          !.raw_text_set = TRUE,
                          !.result = Result(FinalRawText(pdf), pdf.processed_text,
                                            pdf.tags, pdf.tasks),
                          !.pc = "done"]
    /\ UNCHANGED <<llm_mode>>

----------------------------------------------------------------------------
(* DatabaseManager (database_manager.py): the tables as sets of rows, seq  *)
(* the AUTOINCREMENT counter of each table.                                *)

EmptyDb ==
    [files |-> {}, content |-> {}, tags |-> {}, content_tags |-> {},
     tasks |-> {}, seq |-> [files |-> 0, content |-> 0, tags |-> 0, tasks |-> 0]]

\* add_file (88-111): INSERT OR IGNORE on the UNIQUE file_path, then
\* cursor.lastrowid of a fresh connection: the new id, or 0 when the insert
\* was ignored. The counter advances on an ignored insert too.
add_file(d, file_path, file_type, file_hash) ==
    LET id == d.seq.files + 1
        bumped == [d EXCEPT !.seq.files = id]
    IN  IF \E f \in d.files : f.file_path = file_path
        THEN [db |-> bumped, id |-> 0]
        ELSE [db |-> [bumped EXCEPT !.files = @ \cup
                        {[id |-> id, file_path |-> file_path,
                          file_type |-> file_type, file_hash |-> file_hash]}],
              id |-> id]

\* add_content (113-135)
add_content(d, file_id, content_text, processed_text) ==
    LET id == d.seq.content + 1 IN
    [db |-> [d EXCEPT !.seq.content = id,
                      !.content = @ \cup
                        {[id |-> id, file_id |-> file_id,
                          content_text |-> content_text,
                          processed_text |-> processed_text]}],
     id |-> id]

TagId(d, name) == (CHOOSE t \in d.tags : t.name = name).id

\* add_tags (137-162), one tag of the loop: INSERT OR IGNORE into tags,
\* SELECT its id, INSERT OR IGNORE into content_tags.
AddOneTag(d, content_id, name) ==
    LET id == d.seq.tags + 1
        d1 == IF \E t \in d.tags : t.name = name
              THEN [d EXCEPT !.seq.tags = id]
              ELSE [d EXCEPT !.seq.tags = id,
                             !.tags = @ \cup {[id |-> id, name |-> name]}]
    IN [d1 EXCEPT !.content_tags = @ \cup {<<content_id, TagId(d1, name)>>}]

RECURSIVE AddTagList(_, _, _)
AddTagList(d, content_id, names) ==
    IF names = <<>> THEN d
    ELSE AddTagList(AddOneTag(d, content_id, Head(names)), content_id, Tail(names))

\* add_tags: iterating a value that is not iterable raises inside the try,
\* and the handler rolls back.
add_tags(d, content_id, tagsval) ==
    IF ~tagsval.iter THEN d ELSE AddTagList(d, content_id, tagsval.items)

\* due_date NULL
NullDate == 0

\* add_task (164-186) as every caller calls it, without a due date:
\* completed is left to its default 0 (line 78); created_date is now, and
\* a later row has the later time.
add_task(d, content_id, task_text) ==
    LET id == d.seq.tasks + 1 IN
    [d EXCEPT !.seq.tasks = id,
              !.tasks = @ \cup {[id |-> id, content_id |-> content_id,
                                 task_text |-> task_text, completed |-> FALSE,
                                 due_date |-> NullDate, created_date |-> id]}]

RECURSIVE AddTaskList(_, _, _)
AddTaskList(d, content_id, texts) ==
    IF texts = <<>> THEN d
    ELSE AddTaskList(add_task(d, content_id, Head(texts)), content_id, Tail(texts))

----------------------------------------------------------------------------
(* NotesProcessor.process_file (folder_monitor.py 101-172)                 *)

PdfText == <<Page20>>
PdfScan == <<ShortPage>>

\* What PyPDF2 finds in a file.
PdfData(c) ==
    CASE c = "pdfText" -> [kind |-> "ok", pages |-> PdfText]
      [] c = "pdfScan" -> [kind |-> "ok", pages |-> PdfScan]
      [] c = Missing   -> [kind |-> "missing", pages |-> <<>>]
      [] OTHER         -> [kind |-> "invalid", pages |-> <<>>]

PdfPlaceholder == <<"No text could be extracted - this appears to be an image-based PDF">>

\* writes: the calls made on the DatabaseManager, in order, each with the
\* id it was given (add_file: none, 0).
Outcome(raised, ret, d, file_id, content_id) ==
    [raised |-> raised, ret |-> ret, db |-> d, file_id |-> file_id,
     content_id |-> content_id, writes |-> <<>>]

Write(op, id) == [op |-> op, id |-> id]

\* One add_task call per task text.
TaskWrites(content_id, texts) == [i \in 1..Len(texts) |-> Write("add_task", content_id)]

\* The tasks stored before the tags.
StoreTagsAndTasks_TasksFirst(d, file_id, content_id, result) ==
    LET d1 == IF result.tasks.truthy /\ result.tasks.iter
              THEN AddTaskList(d, content_id, result.tasks.items) ELSE d
        w1 == IF result.tasks.truthy /\ result.tasks.iter
              THEN TaskWrites(content_id, result.tasks.items) ELSE <<>>
    IN  IF result.tasks.truthy /\ ~result.tasks.iter
        THEN [Outcome(TRUE, "none", d, file_id, content_id) EXCEPT !.writes = <<>>]
        ELSE IF result.tags.truthy
        THEN [Outcome(FALSE, "True", add_tags(d1, content_id, result.tags),
                      file_id, content_id)
                EXCEPT !.writes = w1 \o <<Write("add_tags", content_id)>>]
        ELSE [Outcome(FALSE, "True", d1, file_id, content_id) EXCEPT !.writes = w1]

\* lines 152-162: tags, then one add_task per task; iterating tasks that
\* are not iterable raises.
StoreTagsAndTasks(d, file_id, content_id, result) ==
    LET d1 == IF result.tags.truthy THEN add_tags(d, content_id, result.tags) ELSE d
        w1 == IF result.tags.truthy THEN <<Write("add_tags", content_id)>> ELSE <<>>
    IN  IF result.tasks.truthy /\ ~result.tasks.iter
        THEN [Outcome(TRUE, "none", d1, file_id, content_id) EXCEPT !.writes = w1]
        ELSE IF result.tasks.truthy
        THEN [Outcome(FALSE, "True",
                      AddTaskList(d1, content_id, result.tasks.items),
                      file_id, content_id)
                EXCEPT !.writes = w1 \o TaskWrites(content_id, result.tasks.items)]
        ELSE [Outcome(FALSE, "True", d1, file_id, content_id) EXCEPT !.writes = w1]

\* lines 115-168, the body of the try block. out: what processor.process
\* did; c: what the file holds when it is hashed; db_down: sqlite3.connect
\* fails. raised: an exception left the block.
TryBlock(d, file_path, file_type, c, out, db_down) ==
    IF out.raised THEN Outcome(TRUE, "none", d, 0, 0)
    ELSE IF out.none THEN Outcome(FALSE, "False", d, 0, 0)
    ELSE IF c = Missing \/ db_down THEN Outcome(TRUE, "none", d, 0, 0)
    ELSE LET f == add_file(d, file_path, file_type, md5(c)) IN
         IF f.id = 0
         THEN [Outcome(FALSE, "True", f.db, 0, 0)
                 EXCEPT !.writes = <<Write("add_file", 0)>>]
         ELSE LET raw_text == IF out.raw_text = <<>> /\ file_type = "pdf"
                              THEN PdfPlaceholder ELSE out.raw_text
                  k == add_content(f.db, f.id, raw_text, out.processed_text)
                  o == StoreTagsAndTasks(k.db, f.id, k.id, out)
              IN [o EXCEPT !.writes = <<Write("add_file", 0),
                                        Write("add_content", f.id)>> \o @]

\* process_file without the handler of lines 170-172.
process_file_NoHandler(d, file_path, file_type, c, out, db_down) ==
    TryBlock(d, file_path, file_type, c, out, db_down)

\* lines 113-172: the try block and its handler (170-172: return False).
process_file(d, file_path, file_type, c, out, db_down) ==
    LET b == TryBlock(d, file_path, file_type, c, out, db_down) IN
    IF b.raised THEN [b EXCEPT !.raised = FALSE, !.ret = "False"] ELSE b

\* ProcessorFactory.get_processor(file_type).process(file_path) for the
\* kinds other than pdf; env holds what the outside world answers.
Extract(file_type, c, env) ==
    CASE file_type = "document" -> [out |-> DocumentProcessor_process(c), fetches |-> 0]
      [] file_type = "image"    -> [out |-> ImageProcessor_process(c, env.ocr), fetches |-> 0]
      [] file_type = "web_clip" -> [out |-> WebClipProcessor_process(c), fetches |-> 0]
      [] file_type = "ai_chat"  -> [out |-> AIChatProcessor_process(c), fetches |-> 0]
      [] file_type = "url"      -> URLProcessor_process(c, env.fetch)
      [] OTHER                  -> [out |-> BaseProcessor_process(c), fetches |-> 0]

Envs == [ocr : ImageOcrOutcomes, fetch : FetchOutcomes]

\* The values env fields take when the kind does not read them.
EnvsFor(file_type) ==
    {e \in Envs : /\ (file_type # "image" => e.ocr = "raise")
                  /\ (file_type # "url" => e.fetch = "ok")}

PfIdle ==
    [pc |-> "idle", file_path |-> "", file_type |-> "", c |-> "",
     out |-> ReturnsNone, fetch |-> "ok", fetches |-> 0, db_down |-> FALSE,
     raised |-> FALSE, ret |-> "none", file_id |-> 0, content_id |-> 0,
     writes |-> <<>>]

Done(file_path, file_type, c, out, fetch, fetches, db_down, o) ==
    [pc |-> "idle", file_path |-> file_path, file_type |-> file_type, c |-> c,
     out |-> out, fetch |-> fetch, fetches |-> fetches, db_down |-> db_down,
     raised |-> o.raised, ret |-> o.ret, file_id |-> o.file_id,
     content_id |-> o.content_id, writes |-> o.writes]

\* One process_file call on a file that is not a PDF. An exception that
\* leaves process_file ends the run.
ProcessFile(file_path) ==
    /\ pf.pc = "idle" /\ ~pf.raised
    /\ calls < MaxCalls
    /\ _determine_file_type(file_path) # "pdf"
    /\ LET file_type == _determine_file_type(file_path) IN
       \E env \in EnvsFor(file_type), db_down \in BOOLEAN :
         LET x == Extract(file_type, fs[file_path], env)
             o == process_file(db, file_path, file_type, fs[file_path], x.out, db_down)
         IN /\ db' = o.db
            /\ pf' = Done(file_path, file_type, fs[file_path], x.out, env.fetch,
                         x.fetches, db_down, o)
    /\ calls' = calls + 1
    /\ UNCHANGED <<fs, edits, pdf, llm_mode>>

\* process_file on a PDF: PDFProcessor.process starts (line 115).
BeginPdf(file_path) ==
    /\ pf.pc = "idle" /\ ~pf.raised
    /\ calls < MaxCalls
    /\ _determine_file_type(file_path) = "pdf"
    /\ pdf' = PdfCall(PdfData(fs[file_path]))
    /\ pf' = [PfIdle EXCEPT !.pc = "pdf", !.file_path = file_path,
                            !.file_type = "pdf", !.c = fs[file_path]]
    /\ calls' = calls + 1
    /\ UNCHANGED <<fs, edits, db, llm_mode>>

\* process_file on a PDF: PDFProcessor.process returned, lines 117-172.
EndPdf ==
    /\ pf.pc = "pdf" /\ pdf.pc = "done"
    /\ \E db_down \in BOOLEAN :
         LET o == process_file(db, pf.file_path, "pdf", fs[pf.file_path],
                               pdf.result, db_down)
         IN /\ db' = o.db
            /\ pf' = Done(pf.file_path, "pdf", pf.c, pdf.result, "ok", 0, db_down, o)
    /\ pdf' = PdfIdle
    /\ UNCHANGED <<fs, edits, calls, llm_mode>>

\* What a file of the folder can be changed to.
ContentsFor(file_path) ==
    CASE _determine_file_type(file_path) = "document" -> {"noteA", "noteB", "bin", Missing}
      [] _determine_file_type(file_path) = "pdf" -> {"pdfText", "pdfScan", "pdfBad", Missing}
      [] _determine_file_type(file_path) = "url" -> {"urlA", "urlNone"}
      [] _determine_file_type(file_path) = "image" -> {"imgA", "bin"}
      [] _determine_file_type(file_path) = "web_clip" -> {"htmlA", "bin"}
      [] _determine_file_type(file_path) = "ai_chat" -> {"chatA", "bin"}
      [] OTHER -> {"bin", "noteA"}

InitialFs ==
    [path \in Paths |->
        CASE _determine_file_type(path) = "document" -> "noteA"
          [] _determine_file_type(path) = "pdf" -> "pdfText"
          [] _determine_file_type(path) = "url" -> "urlA"
          [] _determine_file_type(path) = "image" -> "imgA"
          [] _determine_file_type(path) = "web_clip" -> "htmlA"
          [] _determine_file_type(path) = "ai_chat" -> "chatA"
          [] OTHER -> "bin"]

\* The user rewrites, replaces or removes a file of the folder.
FileChange(file_path) ==
    /\ edits < MaxEdits
    /\ \E c \in ContentsFor(file_path) \ {fs[file_path]} :
         fs' = [fs EXCEPT ![file_path] = c]
    /\ edits' = edits + 1
    /\ UNCHANGED <<db, pf, calls, pdf, llm_mode>>

----------------------------------------------------------------------------
(* The state of the other components before they are used *)

HeurIdle == [pc |-> "idle", text |-> <<>>, tags |-> <<>>, tasks |-> <<>>]

\* A month as generate_monthly_digest sees it: its first day (a day
\* number) and its number of days.
NoMonth == [first |-> 0, days |-> 0]

\* The outcome of a generate_* call. ret: "None" or "dict"; used: the ids
\* of the content rows the digest was built from; trend: the Trends
\* section; llm_none: an LLM call of the operation returned nothing.
NoDigestCall ==
    [fn |-> "none", raised |-> FALSE, ret |-> "None", digest_id |-> 0,
     end_date |-> 0, month |-> NoMonth, used |-> <<>>, fallback |-> FALSE,
     trend |-> "n/a", llm_none |-> FALSE]

\* now: today's day number; content: rows [id, date_processed]; digests:
\* the rows of the digests table in the order of created_date.
DgIdle ==
    [now |-> 0, ticks |-> 0, content |-> {}, content_seq |-> 0, digests |-> <<>>,
     last |-> NoDigestCall]

\* The tasks table (rows [id, completed, due_date, created_date]; due_date
\* 0 is NULL) and what the last listing returned (rows, in order).
TlIdle == [tasks |-> {}, seq |-> 0, fn |-> "none", listed |-> <<>>]

\* An LLM call. fn: the method; key: api_key is set; readable: the image
\* file can be read; retries: the local of the loop; log: the HTTP
\* attempts made (ev "post", with their outcome) and the waits (ev
\* "sleep", with their seconds); ret: "None", "text" or "raised".
ApiIdle ==
    [pc |-> "idle", fn |-> "_call_api", key |-> FALSE, readable |-> FALSE,
     retries |-> 0, log |-> <<>>, ret |-> "n/a"]

\* NotesEventHandler. processed_files: the set of the handler; pc: "idle",
\* "hashed" (the hash of the event's file is computed and is new) or
\* "in_processor"; invoked: the file_hash argument of every _process_file
\* call; skipped: the last event found its hash in processed_files.
HdIdle ==
    [processed_files |-> {}, pc |-> "idle", kind |-> "", file_path |-> "",
     file_hash |-> "", invoked |-> <<>>, skipped |-> FALSE]

\* The tags and content_tags tables as committed, the AUTOINCREMENT
\* counter of tags, the connection that holds the write lock of the
\* database file (0: none), and one add_tags call per caller.
TagTables == [tags |-> {}, content_tags |-> {}, seq |-> 0]

NoConn ==
    [pc |-> "idle", content_id |-> 0, tags |-> <<>>, i |-> 0, tag_id |-> 0,
     work |-> TagTables]

TgIdle == [db |-> TagTables, lock |-> 0, conn |-> <<>>]

\* process_backlog. pc: "idle" or "loop"; reprocess: the argument of the
\* last call; items: the rows fetched and not yet visited; log: per item
\* visited by the last call, its id and the tasks and tags the LLM
\* returned; prev: the log of the call before, when both calls
\* had reprocess=True; tasks0: the AUTOINCREMENT counter of tasks when the
\* last call started; runs: the calls made.
BkIdle ==
    [pc |-> "idle", reprocess |-> FALSE, items |-> <<>>, log |-> <<>>,
     prev |-> <<>>, tasks0 |-> 0, runs |-> 0]

AuxIdle ==
    /\ heur = HeurIdle
    /\ dg = DgIdle
    /\ tl = TlIdle
    /\ api = ApiIdle
    /\ hd = HdIdle
    /\ tg = TgIdle
    /\ bk = BkIdle

StoreIdle ==
    /\ fs = InitialFs
    /\ db = EmptyDb
    /\ pf = PfIdle
    /\ calls = 0
    /\ edits = 0

PdfStep == PdfStart \/ PdfRender \/ PdfFitzPage \/ PdfOcr \/ PdfVision
           \/ PdfLLM \/ PdfCleanup

LlmModes == {"none", "nokey", "live"}

JsonIdle ==
    /\ llm_response = None
    /\ llm_extracted = [fn |-> "pending", val |-> PyList(<<>>)]

\* PDFProcessor.process on its own, for every PDF of the bounds.
PdfInit ==
    /\ JsonIdle
    /\ llm_mode \in LlmModes
    /\ pdf \in {PdfCall(input) : input \in PdfInputs}
    /\ StoreIdle
    /\ AuxIdle

PdfNext ==
    \/ PdfStart /\ UNCHANGED <<jsonVars, storeVars, auxVars>>
    \/ PdfRender /\ UNCHANGED <<jsonVars, storeVars, auxVars>>
    \/ PdfFitzPage /\ UNCHANGED <<jsonVars, storeVars, auxVars>>
    \/ PdfOcr /\ UNCHANGED <<jsonVars, storeVars, auxVars>>
    \/ PdfVision /\ UNCHANGED <<jsonVars, storeVars, auxVars>>
    \/ PdfLLM /\ UNCHANGED <<jsonVars, storeVars, auxVars>>
    \/ PdfCleanup /\ UNCHANGED <<jsonVars, storeVars, auxVars>>

SpecPdf == PdfInit /\ [][PdfNext]_vars

----------------------------------------------------------------------------
(* The ingestion of the files of the notes folder into the store *)

Init ==
    /\ JsonIdle
    /\ llm_mode \in LlmModes
    /\ pdf = PdfIdle
    /\ StoreIdle
    /\ AuxIdle

Next ==
    \/ \E file_path \in Paths : ProcessFile(file_path) /\ UNCHANGED <<jsonVars, auxVars>>
    \/ \E file_path \in Paths : BeginPdf(file_path) /\ UNCHANGED <<jsonVars, auxVars>>
    \/ PdfStep /\ UNCHANGED <<jsonVars, storeVars, auxVars>>
    \/ EndPdf /\ UNCHANGED <<jsonVars, auxVars>>
    \/ \E file_path \in Paths : FileChange(file_path) /\ UNCHANGED <<jsonVars, auxVars>>

Spec == Init /\ [][Next]_vars

----------------------------------------------------------------------------
(* Specification of the JSON-array extraction on its own: a response text  *)
(* is drawn, then extract_tasks or extract_tags is applied to it.          *)

Responses == {None} \cup UNION {[1..n -> RespChars] : n \in 0..MaxRespLen}

SomeText == <<"note">>

JsonInit ==
    /\ llm_response \in Responses
    /\ llm_extracted = [fn |-> "pending", val |-> PyList(<<>>)]
    /\ llm_mode = "live"
    /\ pdf = PdfIdle
    /\ StoreIdle
    /\ AuxIdle

ExtractTasksCall ==
    /\ llm_extracted.fn = "pending"
    /\ llm_extracted' = [fn |-> "extract_tasks",
                         val |-> extract_tasks(SomeText, llm_response)]
    /\ UNCHANGED <<llm_response, llm_mode, pdf, storeVars, auxVars>>

ExtractTagsCall ==
    /\ llm_extracted.fn = "pending"
    /\ llm_extracted' = [fn |-> "extract_tags",
                         val |-> extract_tags(SomeText, llm_response)]
    /\ UNCHANGED <<llm_response, llm_mode, pdf, storeVars, auxVars>>

JsonNext == ExtractTasksCall \/ ExtractTagsCall

SpecJson == JsonInit /\ [][JsonNext]_vars

----------------------------------------------------------------------------
(* Specification of the regex extraction on its own: a text is drawn, then *)
(* _extract_tags and _extract_tasks are applied to it as the processors do *)
(* (file_processors.py 367-368).                                           *)

HeurTokens == {"#work", "#home", "w", NL, SP, "TODO:", "- [ ]", MarkerWithSpace}

HeurTexts == UNION {[1..n -> HeurTokens] : n \in 0..MaxTextLen} \cup {NoteA}

HeurInit ==
    /\ heur \in {[HeurIdle EXCEPT !.pc = "pending", !.text = t] : t \in HeurTexts}
    /\ JsonIdle
    /\ llm_mode = "none"
    /\ pdf = PdfIdle
    /\ StoreIdle
    /\ dg = DgIdle /\ tl = TlIdle /\ api = ApiIdle /\ hd = HdIdle /\ tg = TgIdle /\ bk = BkIdle

HeurExtract ==
    /\ heur.pc = "pending"
    /\ heur' = [heur EXCEPT !.pc = "done",
                            !.tags = _extract_tags(heur.text),
                            !.tasks = _extract_tasks(heur.text)]
    /\ UNCHANGED <<jsonVars, llm_mode, pdf, storeVars, dg, tl, api, hd, tg, bk>>

HeurNext == HeurExtract

SpecHeur == HeurInit /\ [][HeurNext]_vars

\* Whether some substring of the response is a JSON array.
ContainsParseableArray(s) ==
    /\ s # None
    /\ \E i \in 1..Len(s) : \E j \in i..Len(s) :
          LET r == json_loads(SubSeq(s, i, j)) IN ~r.raised /\ r.val.kind = "list"

\* C8: for every response text extract_tasks and extract_tags return a list,
\* and the list is empty when the response holds no parseable JSON array.
C8_AlwaysAList ==
    llm_extracted.fn # "pending" =>
        /\ llm_extracted.val.kind = "list"
        /\ (~ContainsParseableArray(llm_response) => llm_extracted.val.items = <<>>)

----------------------------------------------------------------------------
(* DigestGenerator (digest_generator.py) over the content and digests      *)
(* tables. Time is counted in days; two rows of a table never carry the    *)
(* same timestamp, the later row has the larger id.                        *)

WeekDays == 7
FallbackLimit == 50

\* The rows of a set as a sequence, in the order of their sort keys: the
\* row at place i has i - 1 rows before it.
OrderBy(S, Before) ==
    [i \in 1..Cardinality(S) |->
        CHOOSE x \in S : Cardinality({y \in S : <<y, x>> \in Before}) = i - 1]

\* ORDER BY date_processed, ascending and descending, as sets of pairs.
Earlier(S) ==
    {p \in S \X S : \/ p[1].date < p[2].date
                      \/ (p[1].date = p[2].date /\ p[1].id < p[2].id)}
Later(S) == {p \in S \X S : <<p[2], p[1]>> \in Earlier(S)}

\* s[:n]
Take(s, n) == SubSeq(s, 1, IF Len(s) < n THEN Len(s) ELSE n)

\* get_content_for_period (212-231): date_processed BETWEEN start AND end,
\* ORDER BY date_processed.
get_content_for_period(d, start_date, end_date) ==
    LET rows == {c \in d.content : start_date <= c.date /\ c.date <= end_date}
    IN OrderBy(rows, Earlier(rows))

\* get_all_content (648-669): ORDER BY date_processed DESC LIMIT limit.
get_all_content(d, limit) ==
    Take(OrderBy(d.content, Later(d.content)), limit)

\* A row of the digests table; created_date is datetime.now() at the save.
DigestRow(d, id, digest_type, content, start_date, end_date) ==
    [id |-> id, digest_type |-> digest_type, start_date |-> start_date,
     end_date |-> end_date, content |-> content, created_date |-> d.now]

\* A save that writes over the row of the same kind and window, if any.
save_digest_Replace(d, digest_type, content, start_date, end_date) ==
    LET P == {i \in 1..Len(d.digests) :
                 /\ d.digests[i].digest_type = digest_type
                 /\ d.digests[i].start_date = start_date
                 /\ d.digests[i].end_date = end_date}
        id == IF P = {} THEN Len(d.digests) + 1 ELSE CHOOSE i \in P : TRUE
        row == DigestRow(d, id, digest_type, content, start_date, end_date)
    IN [d |-> [d EXCEPT !.digests = IF P = {} THEN Append(@, row)
                                    ELSE [@ EXCEPT ![id] = row]],
        id |-> id]

\* save_digest (188-210): INSERT INTO digests; the new row and its id.
save_digest(d, digest_type, content, start_date, end_date) ==
    LET id == Len(d.digests) + 1 IN
    [d |-> [d EXCEPT !.digests = Append(@, DigestRow(d, id, digest_type, content,
                                                     start_date, end_date))],
     id |-> id]

\* get_latest_digest (305-323): ORDER BY created_date DESC LIMIT 1; the
\* empty sequence stands for None.
get_latest_digest(d, digest_type) ==
    LET P == {i \in 1..Len(d.digests) : d.digests[i].digest_type = digest_type}
    IN IF P = {} THEN <<>>
       ELSE << d.digests[CHOOSE i \in P : \A j \in P : j <= i] >>

WeeklyText == <<"LLM_WEEKLY">>
TrendNotice == <<"Insufficient data to analyze trends for this month.">>
NoContentSummary == <<"No content available for this month.">>
BasicSummary == <<"In the month the following content was processed:">>

Ids(rows) == [k \in 1..Len(rows) |-> rows[k].id]

\* The text of a digest: the LLM text of a weekly digest, or the sections
\* of a monthly one (weeks: the number of Weekly Highlights entries).
WeeklyBody(text) ==
    [text |-> text, summary |-> <<>>, trends |-> <<>>, weeks |-> 0]
MonthlyBody(summary, trends, weeks) ==
    [text |-> <<>>, summary |-> summary, trends |-> trends, weeks |-> weeks]

\* DigestGenerator.generate_weekly_digest (21-130); answer is what
\* LLMService.generate_weekly_digest returns.
generate_weekly_digest(d, end_date, answer) ==
    LET start_date == end_date - WeekDays
        in_period == get_content_for_period(d, start_date, end_date)
        fallback == in_period = <<>>
        content_items == IF fallback THEN get_all_content(d, FallbackLimit)
                         ELSE in_period
        call == [NoDigestCall EXCEPT !.fn = "weekly", !.end_date = end_date,
                                     !.fallback = fallback,
                                     !.used = Ids(content_items)]
    IN  IF content_items = <<>> THEN [d EXCEPT !.last = call]
        ELSE IF ~Truthy(answer)
             THEN [d EXCEPT !.last = [call EXCEPT !.llm_none = TRUE]]
        ELSE LET r == save_digest(d, "weekly", WeeklyBody(answer), start_date, end_date) IN
             [r.d EXCEPT !.last = [call EXCEPT !.ret = "dict", !.digest_id = r.id]]

\* The loop of lines 153-170: one get_latest_digest per week of the month.
WeeksOfMonth(month) == (month.days + WeekDays - 1) \div WeekDays

RECURSIVE Repeat(_, _)
Repeat(xs, n) == IF n = 0 THEN <<>> ELSE xs \o Repeat(xs, n - 1)

weekly_digests_of(d, month) ==
    Repeat(get_latest_digest(d, "weekly"), WeeksOfMonth(month))

\* LLMService.analyze_trends (387-420) on rows of the digests table:
\* fewer than two digests give None; otherwise digest.get is called on a
\* tuple, which raises AttributeError.
analyze_trends(digests) ==
    IF Len(digests) < 2 THEN [raised |-> FALSE, text |-> None]
    ELSE [raised |-> TRUE, text |-> None]

\* generate_monthly_summary (279-307); answer is what summarize_content
\* returns.
generate_monthly_summary(contents, answer) ==
    IF contents = <<>> THEN NoContentSummary
    ELSE IF Truthy(answer) THEN answer
    ELSE BasicSummary

\* DigestGenerator.generate_monthly_digest (132-277).
generate_monthly_digest(d, month, answer) ==
    LET start_date == month.first
        end_date == month.first + month.days - 1
        weekly_digests == weekly_digests_of(d, month)
        trends == IF Len(weekly_digests) > 1 THEN analyze_trends(weekly_digests)
                  ELSE [raised |-> FALSE, text |-> TrendNotice]
        content_items == get_content_for_period(d, start_date, end_date)
        monthly_summary == generate_monthly_summary(content_items, answer)
        call == [NoDigestCall EXCEPT !.fn = "monthly", !.month = month,
                                     !.used = Ids(content_items),
                                     !.llm_none = content_items # <<>> /\ ~Truthy(answer)]
    IN  IF trends.raised \/ trends.text = None
        THEN [d EXCEPT !.last = [call EXCEPT !.raised = TRUE, !.llm_none = FALSE]]
        ELSE LET r == save_digest(d, "monthly",
                                  MonthlyBody(monthly_summary, trends.text,
                                              Len(weekly_digests)),
                                  start_date, end_date)
             IN [r.d EXCEPT !.last = [call EXCEPT !.ret = "dict", !.digest_id = r.id,
                                                  !.trend = IF trends.text = TrendNotice
                                                            THEN "notice" ELSE "analysis"]]

\* The months a digest is asked for: the month before day 0 (30 days) and
\* the month that starts on day 0 (28 days).
Months == {[first |-> 0 - 30, days |-> 30], [first |-> 0, days |-> 28]}

\* A day or a week passes.
DgTick ==
    /\ dg.ticks < MaxTicks
    /\ \E days \in {1, WeekDays} :
         dg' = [dg EXCEPT !.now = @ + days, !.ticks = @ + 1, !.last = NoDigestCall]
    /\ UNCHANGED <<jsonVars, llm_mode, pdf, storeVars, heur, tl, api, hd, tg, bk>>

\* add_content (113-135) as the generator sees it: a row dated now.
DgAddContent ==
    /\ Cardinality(dg.content) < MaxContent
    /\ dg' = [dg EXCEPT !.content_seq = @ + 1, !.last = NoDigestCall,
                        !.content = @ \cup {[id |-> dg.content_seq + 1, date |-> dg.now]}]
    /\ UNCHANGED <<jsonVars, llm_mode, pdf, storeVars, heur, tl, api, hd, tg, bk>>

\* generate_weekly_digest(): end_date is today (no argument) or yesterday
\* (NotesDigestApp.generate_weekly_digest, main_application.py 274).
GenerateWeekly ==
    /\ Len(dg.digests) < MaxDigests
    /\ \E end_date \in {dg.now, dg.now - 1},
          answer \in LlmTextAnswers(llm_mode, WeeklyText) :
         dg' = generate_weekly_digest(dg, end_date, answer)
    /\ UNCHANGED <<jsonVars, llm_mode, pdf, storeVars, heur, tl, api, hd, tg, bk>>

GenerateMonthly ==
    /\ Len(dg.digests) < MaxDigests
    /\ \E month \in Months, answer \in LlmTextAnswers(llm_mode, SummaryText) :
         dg' = generate_monthly_digest(dg, month, answer)
    /\ UNCHANGED <<jsonVars, llm_mode, pdf, storeVars, heur, tl, api, hd, tg, bk>>

DigestInit ==
    /\ dg = DgIdle
    /\ JsonIdle
    /\ llm_mode \in {"nokey", "live"}
    /\ pdf = PdfIdle
    /\ StoreIdle
    /\ heur = HeurIdle /\ tl = TlIdle /\ api = ApiIdle /\ hd = HdIdle /\ tg = TgIdle /\ bk = BkIdle

DigestNext == DgTick \/ DgAddContent \/ GenerateWeekly \/ GenerateMonthly

SpecDigest == DigestInit /\ [][DigestNext]_vars

----------------------------------------------------------------------------
(* The tasks table: add_task, update_task_status, get_tasks and            *)
(* DigestGenerator.generate_task_list. Every task row here belongs to a    *)
(* content row of a files row, so the joins of get_tasks keep it.          *)

DueDates == {NullDate, 1, 2}

\* ORDER BY t.completed ASC, t.due_date ASC, t.created_date DESC, 'NULLS
\* LAST' having been removed from the query (line 286): sqlite sorts NULL
\* before every value in ascending order.
SqlTaskOrder(S) ==
    {p \in S \X S :
        \/ ~p[1].completed /\ p[2].completed
        \/ /\ p[1].completed = p[2].completed
           /\ \/ p[1].due_date < p[2].due_date
              \/ (p[1].due_date = p[2].due_date
                  /\ p[1].created_date > p[2].created_date)}

\* The order of the rowids, in which sqlite gives the rows of a query
\* without ORDER BY.
RowidOrder(S) == {p \in S \X S : p[1].id < p[2].id}

\* get_tasks (253-303); completed is "None", "True" or "False".
get_tasks(t, completed) ==
    LET rows == {x \in t.tasks : \/ completed = "None"
                                  \/ x.completed = (completed = "True")}
    IN OrderBy(rows, SqlTaskOrder(rows))

\* generate_task_list (309-396): the active tasks in the order get_tasks
\* gave them, then (include_completed) the completed ones. With no row
\* from get_tasks the direct query of line 323 lists the incomplete rows.
generate_task_list(t, include_completed) ==
    LET tasks == get_tasks(t, IF include_completed THEN "None" ELSE "False")
        rows == IF tasks # <<>> THEN tasks
                ELSE LET open == {x \in t.tasks : ~x.completed}
                     IN OrderBy(open, RowidOrder(open))
        active_tasks == SelectSeq(rows, LAMBDA x : ~x.completed)
        completed_tasks == SelectSeq(rows, LAMBDA x : x.completed)
    IN active_tasks \o (IF include_completed THEN completed_tasks ELSE <<>>)

\* add_task (164-186) with a due date or without one.
TlAddTask ==
    /\ Cardinality(tl.tasks) < MaxTasks
    /\ \E due_date \in DueDates :
         tl' = [tl EXCEPT !.seq = @ + 1, !.fn = "add_task", !.listed = <<>>,
                          !.tasks = @ \cup {[id |-> tl.seq + 1, completed |-> FALSE,
                                             due_date |-> due_date,
                                             created_date |-> tl.seq + 1]}]
    /\ UNCHANGED <<jsonVars, llm_mode, pdf, storeVars, heur, dg, api, hd, tg, bk>>

\* update_task_status (422-441)
TlUpdateTaskStatus ==
    /\ \E x \in tl.tasks, completed \in BOOLEAN :
         /\ x.completed # completed
         /\ tl' = [tl EXCEPT !.fn = "update_task_status", !.listed = <<>>,
                             !.tasks = (@ \ {x}) \cup {[x EXCEPT !.completed = completed]}]
    /\ UNCHANGED <<jsonVars, llm_mode, pdf, storeVars, heur, dg, api, hd, tg, bk>>

TlGetTasks ==
    /\ \E completed \in {"None", "True", "False"} :
         tl' = [tl EXCEPT !.fn = "get_tasks", !.listed = get_tasks(tl, completed)]
    /\ UNCHANGED <<jsonVars, llm_mode, pdf, storeVars, heur, dg, api, hd, tg, bk>>

TlGenerateTaskList ==
    /\ \E include_completed \in BOOLEAN :
         tl' = [tl EXCEPT !.fn = "generate_task_list",
                          !.listed = generate_task_list(tl, include_completed)]
    /\ UNCHANGED <<jsonVars, llm_mode, pdf, storeVars, heur, dg, api, hd, tg, bk>>

TasksInit ==
    /\ tl = TlIdle
    /\ JsonIdle
    /\ llm_mode = "none"
    /\ pdf = PdfIdle
    /\ StoreIdle
    /\ heur = HeurIdle /\ dg = DgIdle /\ api = ApiIdle /\ hd = HdIdle /\ tg = TgIdle /\ bk = BkIdle

TasksNext == TlAddTask \/ TlUpdateTaskStatus \/ TlGetTasks \/ TlGenerateTaskList

SpecTasks == TasksInit /\ [][TasksNext]_vars

----------------------------------------------------------------------------
(* LLMService._call_api (llm_service.py 23-103) and _call_api_with_image   *)
(* (105-202): the retry loop.                                              *)

max_retries == 3
retry_delay == 2

RECURSIVE Pow2(_)
Pow2(n) == IF n = 0 THEN 1 ELSE 2 * Pow2(n - 1)

\* The wait without the exponential backoff.
sleep_time_Constant(retries) == retry_delay

\* line 98: retry_delay * (2 ** (retries - 1))
sleep_time(retries) == retry_delay * Pow2(retries - 1)

\* What one requests.post, raise_for_status and the reading of the
\* response can do: the text of the first content block, a body without
\* a content list, a RequestException (timeout, HTTP error status,
\* connection error), or a content block without 'text' (KeyError).
RequestExceptions == {"timeout", "http_error", "connection_error"}
PostOutcomes == {"text", "bad_format", "no_text_key"} \cup RequestExceptions

Post(outcome) == [ev |-> "post", outcome |-> outcome, secs |-> 0]
Sleep(secs) == [ev |-> "sleep", outcome |-> "", secs |-> secs]

\* lines 25-27 and 107-125: no key, or an image that cannot be read,
\* returns None before the loop; otherwise retries = 0.
ApiStart ==
    /\ api.pc = "start"
    /\ api' = IF ~api.key \/ (api.fn = "_call_api_with_image" /\ ~api.readable)
              THEN [api EXCEPT !.pc = "done", !.ret = "None"]
              ELSE [api EXCEPT !.pc = "attempt", !.retries = 0]
    /\ UNCHANGED <<jsonVars, llm_mode, pdf, storeVars, heur, dg, tl, hd, tg, bk>>

\* lines 62-103 and 161-202: one pass of the while loop up to the return
\* or the time.sleep call.
ApiAttempt ==
    /\ api.pc = "attempt"
    /\ api.retries < max_retries
    /\ \E outcome \in PostOutcomes :
         LET logged == [api EXCEPT !.log = Append(@, Post(outcome))]
             retries == api.retries + 1
         IN api' = CASE outcome = "text" ->
                          [logged EXCEPT !.pc = "done", !.ret = "text"]
                     [] outcome = "bad_format" ->
                          [logged EXCEPT !.pc = "done", !.ret = "None"]
                     [] outcome = "no_text_key" ->
                          [logged EXCEPT !.pc = "done", !.ret = "raised"]
                     [] OTHER ->
                          IF retries < max_retries
                          THEN [logged EXCEPT !.retries = retries, !.pc = "sleep"]
                          ELSE [logged EXCEPT !.retries = retries, !.pc = "done",
                                              !.ret = "None"]
    /\ UNCHANGED <<jsonVars, llm_mode, pdf, storeVars, heur, dg, tl, hd, tg, bk>>

\* line 100: time.sleep(sleep_time) returns.
ApiSleep ==
    /\ api.pc = "sleep"
    /\ api' = [api EXCEPT !.log = Append(@, Sleep(sleep_time(api.retries))),
                          !.pc = "attempt"]
    /\ UNCHANGED <<jsonVars, llm_mode, pdf, storeVars, heur, dg, tl, hd, tg, bk>>

RetryInit ==
    /\ api \in {[ApiIdle EXCEPT !.pc = "start", !.fn = fn, !.key = key,
                                 !.readable = readable] :
                   fn \in {"_call_api", "_call_api_with_image"},
                   key \in BOOLEAN, readable \in BOOLEAN}
    /\ JsonIdle
    /\ llm_mode = "live"
    /\ pdf = PdfIdle
    /\ StoreIdle
    /\ heur = HeurIdle /\ dg = DgIdle /\ tl = TlIdle /\ hd = HdIdle /\ tg = TgIdle /\ bk = BkIdle

RetryNext == ApiStart \/ ApiAttempt \/ ApiSleep

\* requests.post has a timeout and time.sleep returns: a call that can
\* take a step takes it.
SpecRetry == RetryInit /\ [][RetryNext]_vars /\ WF_vars(RetryNext)

----------------------------------------------------------------------------
(* NotesEventHandler (folder_monitor.py 14-64) in front of process_file.   *)
(* The file can change between the hashing of the handler and the reading  *)
(* of the processor.                                                       *)

\* _get_file_hash (42-50): the md5 of the bytes, None when the file cannot
\* be read.
_get_file_hash(c) == IF c = Missing THEN "None" ELSE md5(c)

\* A membership test that never finds the hash.
InProcessedFiles_Never(file_hash, processed_files) == FALSE

\* lines 28 and 38: file_hash in self.processed_files
InProcessedFiles(file_hash, processed_files) == file_hash \in processed_files

\* on_created / on_modified up to the call of _process_file.
HandleEvent(kind, file_path) ==
    /\ hd.pc = "idle"
    /\ LET file_hash == _get_file_hash(fs[file_path]) IN
       hd' = [hd EXCEPT !.kind = kind, !.file_path = file_path,
                        !.file_hash = file_hash,
                        !.skipped = InProcessedFiles(file_hash, hd.processed_files),
                        !.pc = IF InProcessedFiles(file_hash, hd.processed_files)
                               THEN "idle" ELSE "hashed"]
    /\ UNCHANGED <<jsonVars, llm_mode, pdf, storeVars, heur, dg, tl, api, tg, bk>>

\* on_created (21-30)
OnCreated(file_path) == HandleEvent("created", file_path)

\* on_modified (32-40)
OnModified(file_path) == HandleEvent("modified", file_path)

\* The hash added only when process_file returned True.
MarkProcessed_OnSuccess(h) ==
    [h EXCEPT !.processed_files = IF pf'.ret = "True" THEN @ \cup {h.file_hash} ELSE @,
              !.pc = "idle", !.kind = "", !.file_path = "", !.file_hash = ""]

\* line 62: self.processed_files.add(file_hash)
MarkProcessed(h) ==
    [h EXCEPT !.processed_files = @ \cup {h.file_hash}, !.pc = "idle",
              !.kind = "", !.file_path = "", !.file_hash = ""]

\* _process_file (52-64) on a file that is not a PDF: process_file, then
\* the hash is added.
HdProcessFile ==
    /\ hd.pc = "hashed"
    /\ ProcessFile(hd.file_path)
    /\ hd' = MarkProcessed([hd EXCEPT !.invoked = Append(@, hd.file_hash)])
    /\ UNCHANGED <<jsonVars, heur, dg, tl, api, tg, bk>>

\* _process_file on a PDF: process_file is entered.
HdBeginPdf ==
    /\ hd.pc = "hashed"
    /\ BeginPdf(hd.file_path)
    /\ hd' = [hd EXCEPT !.invoked = Append(@, hd.file_hash), !.pc = "in_processor"]
    /\ UNCHANGED <<jsonVars, heur, dg, tl, api, tg, bk>>

\* _process_file on a PDF: process_file returned, the hash is added.
HdEndPdf ==
    /\ hd.pc = "in_processor"
    /\ EndPdf
    /\ hd' = MarkProcessed(hd)
    /\ UNCHANGED <<jsonVars, heur, dg, tl, api, tg, bk>>

\* The files of the watched folder the events are about: two notes that
\* start with the same bytes, and a PDF.
WatchedPaths == {"n1.txt", "n2.txt", "p.pdf"}

\* NotesProcessor is given an LLMService or none; what the LLM answers
\* does not reach the handler.
HandlerInit ==
    /\ hd = HdIdle
    /\ JsonIdle
    /\ llm_mode \in {"none", "nokey"}
    /\ pdf = PdfIdle
    /\ StoreIdle
    /\ heur = HeurIdle /\ dg = DgIdle /\ tl = TlIdle /\ api = ApiIdle /\ tg = TgIdle /\ bk = BkIdle

HandlerNext ==
    \/ \E file_path \in WatchedPaths : OnCreated(file_path)
    \/ \E file_path \in WatchedPaths : OnModified(file_path)
    \/ HdProcessFile
    \/ HdBeginPdf
    \/ PdfStep /\ UNCHANGED <<jsonVars, storeVars, auxVars>>
    \/ HdEndPdf
    \/ \E file_path \in WatchedPaths : FileChange(file_path) /\ UNCHANGED <<jsonVars, auxVars>>

SpecHandler == HandlerInit /\ [][HandlerNext]_vars

----------------------------------------------------------------------------
(* DatabaseManager.add_tags (database_manager.py 137-162) called by        *)
(* several callers at once, each on its own connection. A connection sees  *)
(* the committed tables and its own uncommitted writes (work); its first   *)
(* write takes the write lock of the database file, which it keeps until   *)
(* commit; a connection that finds the lock taken waits.                   *)

Callers == 1..NumCallers

TagLists == {<<"work">>, <<"work", "home">>, <<"home", "work">>, <<"work", "work">>}

\* Every write goes through, whoever holds the lock.
CanWrite_NoLock(lock, c) == TRUE

\* sqlite lets a connection write when no other connection holds the
\* write lock.
CanWrite(lock, c) == lock \in {0, c}

\* The tables a connection works on: its transaction if it has one, the
\* committed tables otherwise.
View(c) == IF tg.lock = c THEN tg.conn[c].work ELSE tg.db

\* line 139: sqlite3.connect
TgConnect(c) ==
    /\ tg.conn[c].pc = "connect"
    /\ tg' = [tg EXCEPT !.conn[c].pc =
                 IF tg.conn[c].tags = <<>> THEN "commit" ELSE "insert_tag",
                        !.conn[c].i = 1]
    /\ UNCHANGED <<jsonVars, llm_mode, pdf, storeVars, heur, dg, tl, api, hd, bk>>

\* line 145: INSERT OR IGNORE INTO tags (name)
TgInsertTag(c) ==
    /\ tg.conn[c].pc = "insert_tag"
    /\ CanWrite(tg.lock, c)
    /\ LET w == View(c)
           name == tg.conn[c].tags[tg.conn[c].i]
           id == w.seq + 1
           w1 == IF \E t \in w.tags : t.name = name
                 THEN [w EXCEPT !.seq = id]
                 ELSE [w EXCEPT !.seq = id, !.tags = @ \cup {[id |-> id, name |-> name]}]
       IN tg' = [tg EXCEPT !.lock = c, !.conn[c].work = w1, !.conn[c].pc = "select"]
    /\ UNCHANGED <<jsonVars, llm_mode, pdf, storeVars, heur, dg, tl, api, hd, bk>>

\* lines 148-149: SELECT id FROM tags WHERE name = ?; fetchone()[0]
TgSelect(c) ==
    /\ tg.conn[c].pc = "select"
    /\ LET name == tg.conn[c].tags[tg.conn[c].i]
           rows == {t \in View(c).tags : t.name = name}
       IN /\ rows # {}
          /\ \E t \in rows :
               tg' = [tg EXCEPT !.conn[c].tag_id = t.id, !.conn[c].pc = "insert_ct"]
    /\ UNCHANGED <<jsonVars, llm_mode, pdf, storeVars, heur, dg, tl, api, hd, bk>>

\* lines 152-155: INSERT OR IGNORE INTO content_tags; then the next tag
\* of the loop, or the commit.
TgInsertContentTag(c) ==
    /\ tg.conn[c].pc = "insert_ct"
    /\ CanWrite(tg.lock, c)
    /\ LET w == View(c)
           last == tg.conn[c].i = Len(tg.conn[c].tags)
       IN tg' = [tg EXCEPT !.lock = c,
                           !.conn[c].work = [w EXCEPT !.content_tags = @ \cup
                               {<<tg.conn[c].content_id, tg.conn[c].tag_id>>}],
                           !.conn[c].i = IF last THEN @ ELSE @ + 1,
                           !.conn[c].pc = IF last THEN "commit" ELSE "insert_tag"]
    /\ UNCHANGED <<jsonVars, llm_mode, pdf, storeVars, heur, dg, tl, api, hd, bk>>

\* lines 157 and 162: conn.commit(), conn.close()
TgCommit(c) ==
    /\ tg.conn[c].pc = "commit"
    /\ tg' = [tg EXCEPT !.db = View(c),
                        !.lock = IF tg.lock = c THEN 0 ELSE @,
                        !.conn[c].pc = "done"]
    /\ UNCHANGED <<jsonVars, llm_mode, pdf, storeVars, heur, dg, tl, api, hd, bk>>

\* Each caller adds the tags of the content row of its own file.
TagsInit ==
    /\ tg \in {[TgIdle EXCEPT !.conn =
                    [c \in Callers |-> [NoConn EXCEPT !.pc = "connect",
                                                      !.content_id = c,
                                                      !.tags = lists[c]]]] :
                 lists \in [Callers -> TagLists]}
    /\ JsonIdle
    /\ llm_mode = "none"
    /\ pdf = PdfIdle
    /\ StoreIdle
    /\ heur = HeurIdle /\ dg = DgIdle /\ tl = TlIdle /\ api = ApiIdle /\ hd = HdIdle
    /\ bk = BkIdle

TagsNext ==
    \/ \E c \in Callers : TgConnect(c)
    \/ \E c \in Callers : TgInsertTag(c)
    \/ \E c \in Callers : TgSelect(c)
    \/ \E c \in Callers : TgInsertContentTag(c)
    \/ \E c \in Callers : TgCommit(c)

SpecTags == TagsInit /\ [][TagsNext]_vars

----------------------------------------------------------------------------
(* The other writers of the files and content tables: the upload route of  *)
(* the dashboard (web_interface.py 312-420), process_pdf_with_claude       *)
(* (main_application.py 185-268) and delete_content.                       *)

ClaudePlaceholder == <<"No text could be extracted - may be image-based PDF">>

\* main_application.py 229-232 and web_interface.py 375-378
ClaudeRawText(out) ==
    IF (~Truthy(out.raw_text) \/ out.raw_text = ClaudePlaceholder)
       /\ Truthy(out.processed_text)
    THEN <<"PDF text extracted via LLM analysis:">> \o out.processed_text
    ELSE out.raw_text

\* NotesDigestApp.process_file (main_application.py 163-183)
app_process_file(d, file_path, c, out, db_down) ==
    IF c = Missing THEN Outcome(FALSE, "False", d, 0, 0)
    ELSE process_file(d, file_path, _determine_file_type(file_path), c, out, db_down)

\* process_pdf_with_claude after PDFProcessor.process returned (lines
\* 208-268): c is what the file holds when it is hashed. ret "result":
\* the result dict is returned.
process_pdf_with_claude(d, pdf_path, c, out) ==
    IF out.raised \/ out.none \/ c = Missing THEN Outcome(FALSE, "False", d, 0, 0)
    ELSE LET f == add_file(d, pdf_path, "pdf", md5(c)) IN
         IF f.id = 0
         THEN [Outcome(FALSE, "result", f.db, 0, 0)
                 EXCEPT !.writes = <<Write("add_file", 0)>>]
         ELSE LET k == add_content(f.db, f.id, ClaudeRawText(out), out.processed_text)
                  s == StoreTagsAndTasks(k.db, f.id, k.id, out)
                  o == [s EXCEPT !.writes = <<Write("add_file", 0),
                                              Write("add_content", f.id)>> \o @]
              IN IF o.raised THEN [o EXCEPT !.raised = FALSE, !.ret = "False"]
                 ELSE [o EXCEPT !.ret = "result"]

\* The PDF branch of the upload route after process_pdf_with_claude
\* returned a result (web_interface.py 351-404): add_file again, then
\* add_content with the id it returned, whatever it is.
upload_pdf_store(d, file_path, c, out) ==
    IF c = Missing THEN Outcome(FALSE, "error", d, 0, 0)
    ELSE LET f == add_file(d, file_path, "pdf", md5(c))
             k == add_content(f.db, f.id, ClaudeRawText(out), out.processed_text)
             s == StoreTagsAndTasks(k.db, f.id, k.id, out)
             o == [s EXCEPT !.writes = <<Write("add_file", 0),
                                         Write("add_content", f.id)>> \o @]
         IN IF o.raised THEN [o EXCEPT !.raised = FALSE, !.ret = "error"]
            ELSE [o EXCEPT !.ret = "success"]

\* What can be uploaded under a file name.
UploadsFor(file_path) == ContentsFor(file_path) \ {Missing}

\* POST /process with a file that is not a PDF: the file is saved in the
\* notes folder, then NotesDigestApp.process_file.
UploadFile(file_path) ==
    /\ pf.pc = "idle" /\ ~pf.raised
    /\ calls < MaxCalls
    /\ _determine_file_type(file_path) # "pdf"
    /\ \E c \in UploadsFor(file_path) :
         LET file_type == _determine_file_type(file_path) IN
         \E env \in EnvsFor(file_type) :
           LET x == Extract(file_type, c, env)
               o == app_process_file(db, file_path, c, x.out, FALSE)
           IN /\ fs' = [fs EXCEPT ![file_path] = c]
              /\ db' = o.db
              /\ pf' = Done(file_path, file_type, c, x.out, env.fetch, x.fetches,
                            FALSE, o)
    /\ calls' = calls + 1
    /\ UNCHANGED <<edits, pdf, llm_mode>>

\* POST /process with a PDF: the file is saved, process_pdf_with_claude
\* starts PDFProcessor.process.
UploadPdfBegin(file_path) ==
    /\ pf.pc = "idle" /\ ~pf.raised
    /\ calls < MaxCalls
    /\ _determine_file_type(file_path) = "pdf"
    /\ \E c \in UploadsFor(file_path) :
         /\ fs' = [fs EXCEPT ![file_path] = c]
         /\ pdf' = PdfCall(PdfData(c))
         /\ pf' = [PfIdle EXCEPT !.pc = "upload_pdf", !.file_path = file_path,
                                 !.file_type = "pdf", !.c = c]
    /\ calls' = calls + 1
    /\ UNCHANGED <<edits, db, llm_mode>>

\* POST /process with a PDF: PDFProcessor.process returned; the rest of
\* process_pdf_with_claude, then the rest of the route.
UploadPdfEnd ==
    /\ pf.pc = "upload_pdf" /\ pdf.pc = "done"
    /\ LET c == fs[pf.file_path]
           a == process_pdf_with_claude(db, pf.file_path, c, pdf.result)
           o == IF a.ret = "False" THEN a
                ELSE upload_pdf_store(a.db, pf.file_path, c, pdf.result)
       IN /\ db' = o.db
          /\ pf' = Done(pf.file_path, "pdf", pf.c, pdf.result, "ok", 0, FALSE, o)
    /\ pdf' = PdfIdle
    /\ UNCHANGED <<fs, edits, calls, llm_mode>>

\* process_pdf_with_claude called on a file of the folder.
ClaudePdfBegin(file_path) ==
    /\ pf.pc = "idle" /\ ~pf.raised
    /\ calls < MaxCalls
    /\ _determine_file_type(file_path) = "pdf"
    /\ fs[file_path] # Missing
    /\ pdf' = PdfCall(PdfData(fs[file_path]))
    /\ pf' = [PfIdle EXCEPT !.pc = "claude_pdf", !.file_path = file_path,
                            !.file_type = "pdf", !.c = fs[file_path]]
    /\ calls' = calls + 1
    /\ UNCHANGED <<fs, edits, db, llm_mode>>

ClaudePdfEnd ==
    /\ pf.pc = "claude_pdf" /\ pdf.pc = "done"
    /\ LET o == process_pdf_with_claude(db, pf.file_path, fs[pf.file_path], pdf.result)
       IN /\ db' = o.db
          /\ pf' = Done(pf.file_path, "pdf", pf.c, pdf.result, "ok", 0, FALSE, o)
    /\ pdf' = PdfIdle
    /\ UNCHANGED <<fs, edits, calls, llm_mode>>

\* delete_content (671-691): the content row, its content_tags rows and
\* its tasks.
delete_content(d, content_id) ==
    [d EXCEPT !.content_tags = {ct \in @ : ct[1] # content_id},
              !.tasks = {t \in @ : t.content_id # content_id},
              !.content = {k \in @ : k.id # content_id}]

DeleteContent ==
    /\ pf.pc = "idle"
    /\ \E k \in db.content : db' = delete_content(db, k.id)
    /\ UNCHANGED <<fs, pf, calls, edits, pdf, llm_mode>>

\* The dashboard builds a NotesDigestApp, which always has an LLMService.
UploadInit ==
    /\ JsonIdle
    /\ llm_mode \in {"nokey", "live"}
    /\ pdf = PdfIdle
    /\ StoreIdle
    /\ AuxIdle

UploadNext ==
    \/ \E file_path \in Paths : ProcessFile(file_path) /\ UNCHANGED <<jsonVars, auxVars>>
    \/ \E file_path \in Paths : BeginPdf(file_path) /\ UNCHANGED <<jsonVars, auxVars>>
    \/ PdfStep /\ UNCHANGED <<jsonVars, storeVars, auxVars>>
    \/ EndPdf /\ UNCHANGED <<jsonVars, auxVars>>
    \/ \E file_path \in Paths : UploadFile(file_path) /\ UNCHANGED <<jsonVars, auxVars>>
    \/ \E file_path \in Paths : UploadPdfBegin(file_path) /\ UNCHANGED <<jsonVars, auxVars>>
    \/ UploadPdfEnd /\ UNCHANGED <<jsonVars, auxVars>>
    \/ \E file_path \in Paths : ClaudePdfBegin(file_path) /\ UNCHANGED <<jsonVars, auxVars>>
    \/ ClaudePdfEnd /\ UNCHANGED <<jsonVars, auxVars>>
    \/ DeleteContent /\ UNCHANGED <<jsonVars, auxVars>>

SpecUpload == UploadInit /\ [][UploadNext]_vars

----------------------------------------------------------------------------
(* EnhancedProcessor (llm_enhanced_processor.py): process_content and      *)
(* process_backlog over the store, next to the ingestion of files, the     *)
(* task toggle of the dashboard and the task list of the digests.          *)

BacklogPaths == {"n1.txt"}

TranscribedText == <<"LLM_TRANSCRIPTION">>

\* ORDER BY date_processed DESC: a later row has the later time.
NewestFirst(S) == {p \in S \X S : p[1].id > p[2].id}

\* get_unprocessed_content (625-646), no limit.
get_unprocessed_content(d) ==
    LET rows == {k \in d.content : k.processed_text = None}
    IN OrderBy(rows, RowidOrder(rows))

\* get_all_content (648-669) of the store, no limit.
AllContent(d) == OrderBy(d.content, NewestFirst(d.content))

\* update_content_processed_text (604-623)
update_content_processed_text(d, content_id, processed_text) ==
    [d EXCEPT !.content = {IF k.id = content_id
                           THEN [k EXCEPT !.processed_text = processed_text]
                           ELSE k : k \in @}]

\* An update that also cuts the task loose from its content row.
update_task_status_Unlink(d, task_id, completed) ==
    [d EXCEPT !.tasks = {IF t.id = task_id
                         THEN [t EXCEPT !.completed = completed, !.content_id = 0]
                         ELSE t : t \in @}]

\* update_task_status (422-441): UPDATE tasks SET completed = ? WHERE id = ?
update_task_status(d, task_id, completed) ==
    [d EXCEPT !.tasks = {IF t.id = task_id
                         THEN [t EXCEPT !.completed = completed]
                         ELSE t : t \in @}]

\* What process_content did: the store, the processed_text of the dict it
\* returned (None: the key is not set) and what extract_tasks and
\* extract_tags returned.
Enhanced(d, processed_text, tasks, tags) ==
    [db |-> d, processed_text |-> processed_text, tasks |-> tasks, tags |-> tags]

\* process_content (15-93) with a content_id and a db_manager. llm: there
\* is an llm_service; answer: what transcribe_handwritten (handwritten
\* content) or summarize_content returned; tasks, tags: what extract_tasks
\* and extract_tags returned. Iterating tasks that are not iterable, and
\* existing_tags + tags with tags that are not a list, raise: the handler
\* returns the dict it was given.
process_content(d, llm, content_id, raw_text, answer, tasks, tags) ==
    IF ~llm \/ ~Truthy(raw_text)
    THEN Enhanced(d, None, IterVal(<<>>), IterVal(<<>>))
    ELSE LET tv == TasksIter(tasks)
             gv == TagsIter(tags)
             d1 == IF tv.truthy /\ tv.iter
                   THEN AddTaskList(d, content_id, tv.items) ELSE d
             d2 == IF gv.truthy THEN add_tags(d1, content_id, gv) ELSE d1
         IN  IF tv.truthy /\ ~tv.iter THEN Enhanced(d, None, tv, IterVal(<<>>))
             ELSE IF gv.truthy /\ tags.kind # "list" THEN Enhanced(d1, None, tv, gv)
             ELSE Enhanced(d2, IF Truthy(answer) THEN answer ELSE None, tv, gv)

\* process_backlog (95-110): the rows are fetched.
BkBegin(reprocess) ==
    /\ bk.pc = "idle"
    /\ bk.runs < MaxRuns
    /\ LET content_items == IF reprocess THEN AllContent(db)
                            ELSE get_unprocessed_content(db)
       IN bk' = [pc |-> IF content_items = <<>> THEN "idle" ELSE "loop",
                 reprocess |-> reprocess, items |-> content_items, log |-> <<>>,
                 prev |-> IF reprocess /\ bk.reprocess THEN bk.log ELSE <<>>,
                 tasks0 |-> db.seq.tasks, runs |-> bk.runs + 1]
    /\ UNCHANGED <<jsonVars, llm_mode, pdf, storeVars, heur, dg, tl, api, hd, tg>>

\* process_backlog (112-152): one item of the loop.
BkItem ==
    /\ bk.pc = "loop"
    /\ LET item == Head(bk.items)
           rest == Tail(bk.items)
           pc == IF rest = <<>> THEN "idle" ELSE "loop"
           file_info == {f \in db.files : f.id = item.file_id}
       IN IF (Truthy(item.processed_text) /\ ~bk.reprocess) \/ file_info = {}
          THEN /\ db' = db
               /\ bk' = [bk EXCEPT !.items = rest, !.pc = pc]
          ELSE \E f \in file_info :
               \E r \in {process_content(db, llm_mode # "none", item.id,
                                         item.content_text, answer, tasks, tags) :
                           answer \in LlmTextAnswers(llm_mode,
                                        IF f.file_type \in {"image", "pdf"}
                                        THEN TranscribedText ELSE SummaryText),
                           tasks \in {extract_tasks(item.content_text, tr) :
                                         tr \in LlmListAnswers(llm_mode)},
                           tags \in {extract_tags(item.content_text, gr) :
                                        gr \in LlmListAnswers(llm_mode)}} :
                 /\ db' = IF Truthy(r.processed_text)
                          THEN update_content_processed_text(r.db, item.id,
                                                             r.processed_text)
                          ELSE r.db
                 /\ bk' = [bk EXCEPT !.items = rest, !.pc = pc,
                                     !.log = Append(@, [content_id |-> item.id,
                                                        tasks |-> r.tasks,
                                                        tags |-> r.tags])]
    /\ UNCHANGED <<jsonVars, llm_mode, pdf, fs, pf, calls, edits, heur, dg, tl, api,
                   hd, tg>>

\* toggle_task (web_interface.py 149-176): the task is read, then
\* update_task_status with the other value.
BkToggleTask ==
    /\ edits < MaxEdits
    /\ \E task \in db.tasks :
         db' = update_task_status(db, task.id, ~task.completed)
    /\ edits' = edits + 1
    /\ UNCHANGED <<jsonVars, llm_mode, pdf, fs, pf, calls, auxVars>>

\* DigestGenerator.generate_task_list over the tasks of the store.
BkGenerateTaskList ==
    /\ \E include_completed \in BOOLEAN :
         tl' = [tl EXCEPT !.fn = "generate_task_list",
                          !.listed = generate_task_list(db, include_completed)]
    /\ UNCHANGED <<jsonVars, llm_mode, pdf, storeVars, heur, dg, api, hd, tg, bk>>

BacklogInit ==
    /\ JsonIdle
    /\ llm_mode \in LlmModes
    /\ pdf = PdfIdle
    /\ StoreIdle
    /\ AuxIdle

BacklogNext ==
    \/ \E file_path \in BacklogPaths :
         ProcessFile(file_path) /\ UNCHANGED <<jsonVars, auxVars>>
    \/ \E reprocess \in BOOLEAN : BkBegin(reprocess)
    \/ BkItem
    \/ BkToggleTask
    \/ BkGenerateTaskList

SpecBacklog == BacklogInit /\ [][BacklogNext]_vars

----------------------------------------------------------------------------
(* Claims on the regex extraction (SpecHeur) *)

\* The k-th smallest element of a set of positions.
NthOf(P, k) == CHOOSE i \in P : Cardinality({j \in P : j < i}) = k - 1

\* The hashtag words of a text, in order of appearance.
HashtagWords(t) ==
    LET P == {i \in 1..Len(t) : t[i] \in HashtagTokens}
    IN [k \in 1..Cardinality(P) |-> TagOf(t[NthOf(P, k)])]

\* Line k of a text: the tokens between line break k-1 and line break k.
LineOf(t, k) ==
    LET B == {i \in 1..Len(t) : t[i] = NL}
        from == IF k = 1 THEN 1 ELSE NthOf(B, k - 1) + 1
        to == IF k = Cardinality(B) + 1 THEN Len(t) ELSE NthOf(B, k) - 1
    IN SubSeq(t, from, to)

\* A line without the blanks at its ends.
Trimmed(line) ==
    LET N == {i \in 1..Len(line) : line[i] # SP}
    IN IF N = {} THEN <<>>
       ELSE SubSeq(line, NthOf(N, 1), NthOf(N, Cardinality(N)))

\* Whether a trimmed line begins with a task marker.
BeginsWithMarker(line) ==
    /\ line # <<>>
    /\ \/ line[1] \in Markers
       \/ line[1] = MarkerWithSpace /\ Len(line) >= 2

\* The tasks of a text: one per line that begins with a marker.
MarkedTasks(t) ==
    LET n == Cardinality({i \in 1..Len(t) : t[i] = NL}) + 1
        P == {k \in 1..n : BeginsWithMarker(Trimmed(LineOf(t, k)))}
    IN [j \in 1..Cardinality(P) |-> Trimmed(Tail(Trimmed(LineOf(t, NthOf(P, j)))))]

\* C11: with no LLM, the tags of a text are its hashtag words in order of
\* appearance and its tasks are the lines that, trimmed, begin with a task
\* marker, each without the marker and trimmed, one task per line; the
\* note '#work finish the report / TODO: email Sarah' gives tags [work]
\* and tasks [email Sarah].
C11_HeuristicExtraction ==
    heur.pc = "done" =>
        /\ heur.tags = HashtagWords(heur.text)
        /\ heur.tasks = MarkedTasks(heur.text)
        /\ (heur.text = NoteA =>
              heur.tags = <<"work">> /\ heur.tasks = << <<"email", "Sarah">> >>)

\* An indented task line was extracted.
C11_Witness ==
    /\ heur.pc = "done"
    /\ heur.text = <<SP, "TODO:", "w">>
    /\ heur.tasks = << <<"w">> >>

----------------------------------------------------------------------------
(* Claims on the ingestion (Spec) *)

Returned == pf.pc = "idle" /\ calls > 0

\* The content rows stored for the files row of a path.
ContentOf(file_path) ==
    {k \in db.content : \E f \in db.files :
        f.file_path = file_path /\ k.file_id = f.id}

\* C1: after any sequence of process_file calls there is one files row per
\* content hash, and no tag name is in two tags rows.
C1_OneFilePerHash ==
    /\ \A f, g \in db.files : f.file_hash = g.file_hash => f = g
    /\ \A t, u \in db.tags : t.name = u.name => t = u

\* C2: no exception leaves process_file; every call returns True or False,
\* whatever the kind of the file and whatever its extractor did.
C2_NoExceptionCrosses ==
    /\ ~pf.raised
    /\ Returned => pf.ret \in {"True", "False"}

\* A second file was processed, its extractor raised, and the call returned.
C2_Witness ==
    Returned /\ calls >= 2 /\ pf.out.raised /\ pf.ret = "False"

\* C3: when the extractor of a file raised or returned nothing (the store
\* being up), a content row with empty raw text is stored for the file.
C3_DegradedRecordStored ==
    (Returned /\ (pf.out.raised \/ pf.out.none) /\ ~pf.db_down) =>
        \E k \in ContentOf(pf.file_path) :
            k.id = pf.content_id /\ k.content_text = <<>>

DegradedPdfResult(msg) ==
    Result(<<"Error processing PDF:", msg>>,
           <<"This PDF could not be processed due to an error:", msg>>,
           IterVal(<<"error", "pdf">>), IterVal(<<>>))

\* C6: a PDF that cannot be read gives the result tagged error, pdf with
\* no tasks and the message in its processed text, without an exception,
\* and (the store being up) process_file stores it as a content row.
C6_PdfFailureStored ==
    (Returned /\ pf.file_type = "pdf" /\ PdfData(pf.c).kind # "ok" /\ ~pf.db_down) =>
        /\ ~pf.raised
        /\ pf.out = DegradedPdfResult(ErrorMessage(PdfData(pf.c)))
        /\ \E k \in db.content :
              /\ k.id = pf.content_id
              /\ k.content_text = pf.out.raw_text
              /\ k.processed_text = pf.out.processed_text

\* The text the heuristic extraction of a file works on.
HeuristicText(file_type, c) ==
    IF file_type = "pdf" THEN DirectText(PdfData(c).pages) ELSE FileData(c).text

\* C9: with an LLMService that has no API key, a file whose extractor gave
\* a result yields the regex tags and tasks of its text, and (the store
\* being up) a content row for the file.
C9_HeuristicWithoutKey ==
    (Returned /\ llm_mode = "nokey" /\ ~pf.out.none /\ ~pf.out.raised
       /\ pf.file_type \in {"pdf", "document", "web_clip", "ai_chat", "url"}
       /\ (pf.file_type = "pdf" => PdfData(pf.c).kind = "ok")
       /\ fs[pf.file_path] = pf.c /\ ~pf.db_down) =>
        /\ pf.out.tags = IterVal(_extract_tags(HeuristicText(pf.file_type, pf.c)))
        /\ pf.out.tasks = IterVal(_extract_tasks(HeuristicText(pf.file_type, pf.c)))
        /\ ContentOf(pf.file_path) # {}

\* C10: a process_file call on a URL file whose fetch fails returns False,
\* made one fetch, and leaves every table as it was.
C10_FetchFailureStoresNothing ==
    [][(pf'.pc = "idle" /\ calls' = calls + 1 /\ pf'.file_type = "url"
          /\ pf'.fetches > 0 /\ pf'.fetch # "ok") =>
         (pf'.ret = "False" /\ pf'.fetches = 1 /\ pf'.content_id = 0
          /\ db' = db)]_vars

\* A URL file was ingested, its fetch failed.
C10_Witness ==
    Returned /\ pf.file_type = "url" /\ pf.fetches = 1 /\ pf.fetch = "timeout"
    /\ pf.ret = "False"

\* A process_file call returns in this step.
CallReturns == pf'.pc = "idle" /\ (calls' = calls + 1 \/ pf.pc = "pdf")

\* C18: when a file whose path has a files row is processed again with new
\* bytes (its extractor giving a result, the store being up), a content
\* row is appended for that files row and the earlier content rows stay
\* as they were.
C18_ReprocessingAppends ==
    [][\A f \in db.files :
          (/\ CallReturns
           /\ pf'.file_path = f.file_path
           /\ ~pf'.out.raised /\ ~pf'.out.none /\ ~pf'.db_down
           /\ fs[f.file_path] # Missing
           /\ md5(fs[f.file_path]) # f.file_hash)
          => /\ \E k \in db'.content \ db.content : k.file_id = f.id
             /\ db.content \subseteq db'.content]_vars

----------------------------------------------------------------------------
(* Claims on PDFProcessor.process (SpecPdf) *)

PdfReturned == pdf.pc = "done" /\ pdf.input.kind = "ok"

\* C4: for a PDF with direct text and words_per_page >= 20, no rendering,
\* OCR or vision call is made, and raw_text is the directly extracted
\* text, with or without an LLM service.
C4_DirectTextIsRawText ==
    (PdfReturned /\ pdf.direct_text # <<>> /\ ~pdf.might_be_handwritten) =>
        /\ ~pdf.trace.render_entered
        /\ pdf.trace.ocr_calls = {} /\ pdf.trace.vision_calls = {}
        /\ pdf.result.raw_text = DirectText(pdf.input.pages)

\* C5: for a PDF with words_per_page < 20 or no direct text, rendering is
\* attempted with or without an LLM service, and raw_text is never None.
C5_RenderingAttempted ==
    (PdfReturned /\ (pdf.direct_text = <<>> \/ pdf.might_be_handwritten)) =>
        /\ pdf.trace.render_entered
        /\ pdf.result.raw_text # None

----------------------------------------------------------------------------
(* Claims on the digests (SpecDigest) *)

\* The content rows dated in the seven days that end on end_date.
InWindow(end_date) ==
    {c \in dg.content : end_date - WeekDays <= c.date /\ c.date <= end_date}

\* The last call persisted a digest of this type and returned it.
DigestReturned(digest_type) ==
    /\ ~dg.last.raised
    /\ dg.last.ret = "dict"
    /\ dg.last.digest_id \in 1..Len(dg.digests)
    /\ dg.digests[dg.last.digest_id].digest_type = digest_type

\* ids names the rows of the store that are the most recent ones, at most
\* FallbackLimit of them.
MostRecent(ids) ==
    LET used == {ids[k] : k \in 1..Len(ids)} IN
    /\ Len(ids) = Cardinality(used)
    /\ Len(ids) <= FallbackLimit
    /\ used \subseteq {c.id : c \in dg.content}
    /\ \/ Len(ids) = FallbackLimit
       \/ Len(ids) = Cardinality(dg.content)
    /\ \A c \in dg.content, o \in dg.content :
          c.id \in used /\ o.id \notin used => o.date <= c.date

\* C12: a weekly digest asked for when the seven-day window holds no
\* content but the store does is built from the (at most 50) most recent
\* records and returned; nothing is returned only when the store is empty.
C12_WeeklyFallsBackToRecent ==
    dg.last.fn = "weekly" =>
        /\ (InWindow(dg.last.end_date) = {} /\ dg.content # {} =>
                DigestReturned("weekly") /\ MostRecent(dg.last.used))
        /\ (dg.last.ret = "None" => dg.content = {})

\* The weekly digests of the store whose period meets the month.
WeekliesOf(month) ==
    {i \in 1..Len(dg.digests) :
        /\ dg.digests[i].digest_type = "weekly"
        /\ dg.digests[i].start_date <= month.first + month.days - 1
        /\ dg.digests[i].end_date >= month.first}

\* C13: a monthly digest carries a trend analysis only when at least two
\* weekly digests exist for the month; with one or none its Trends section
\* is the notice 'Insufficient data to analyze trends for this month.'
C13_TrendsNeedTwoWeeklies ==
    dg.last.fn = "monthly" =>
        /\ (Cardinality(WeekliesOf(dg.last.month)) < 2 =>
                /\ DigestReturned("monthly")
                /\ dg.digests[dg.last.digest_id].content.trends = TrendNotice)
        /\ (dg.last.trend = "analysis" => Cardinality(WeekliesOf(dg.last.month)) >= 2)

\* C15: when the LLM returns nothing to a weekly or monthly digest that has
\* content to work on, the call still completes, persists a digest and
\* returns it without raising.
C15_DigestWithoutLlm ==
    dg.last.fn \in {"weekly", "monthly"} /\ dg.last.llm_none =>
        DigestReturned(dg.last.fn)

----------------------------------------------------------------------------
(* Claims on the task list (SpecTasks) *)

HasDue(x) == x.due_date # NullDate

\* x may stand before y in a task list.
MayPrecede(x, y) ==
    /\ ~(x.completed /\ ~y.completed)
    /\ x.completed = y.completed =>
          /\ ~(~HasDue(x) /\ HasDue(y))
          /\ (HasDue(x) /\ HasDue(y) => x.due_date <= y.due_date)
          /\ (x.due_date = y.due_date => x.created_date > y.created_date)

\* C14: a task list has the active tasks before the completed ones; among
\* tasks of the same state those with a due date come first, by ascending
\* due date, then those without one; ties go by creation date descending.
C14_TaskListOrder ==
    tl.fn \in {"get_tasks", "generate_task_list"} =>
        \A i \in 1..Len(tl.listed), j \in 1..Len(tl.listed) :
            i < j => MayPrecede(tl.listed[i], tl.listed[j])

----------------------------------------------------------------------------
(* Claims on the retry loop (SpecRetry) *)

Attempts == SelectSeq(api.log, LAMBDA e : e.ev = "post")
Waits == SelectSeq(api.log, LAMBDA e : e.ev = "sleep")
Transient(e) == e.ev = "post" /\ e.outcome \in RequestExceptions

C16_Safe ==
    /\ Len(Attempts) <= 3
    /\ Len(Waits) <= 2
    /\ \A k \in 1..Len(Waits) : Waits[k].secs = (IF k = 1 THEN 2 ELSE 4)
    /\ \A k \in 1..Len(api.log) :
          api.log[k].ev = "sleep" => k > 1 /\ Transient(api.log[k - 1])
    /\ api.pc = "done" /\ api.log # <<>> => api.log[Len(api.log)].ev = "post"
    /\ Len(Attempts) = 3 => Len(Waits) = 2
    /\ (api.pc = "done" /\ Len(Attempts) = 3 /\ (\A k \in 1..3 : Transient(Attempts[k]))
          => api.ret = "None")
    /\ ~api.key => Attempts = <<>> /\ (api.pc = "done" => api.ret = "None")

\* C16: a call of _call_api or _call_api_with_image makes at most three
\* HTTP attempts, waits 2 s after the first failure and 4 s after the
\* second and not after the last, returns None after the third transient
\* failure, makes no attempt without an API key, and always terminates.
C16_BoundedRetry == []C16_Safe /\ <>(api.pc = "done")

C16_Witness ==
    /\ api.pc = "done" /\ api.ret = "None"
    /\ Len(Attempts) = 3 /\ (\A k \in 1..3 : Transient(Attempts[k]))
    /\ Len(Waits) = 2 /\ Waits[1].secs = 2 /\ Waits[2].secs = 4

----------------------------------------------------------------------------
(* Claims on the event handler (SpecHandler) *)

NoDuplicates(s) == \A i \in 1..Len(s), j \in 1..Len(s) : s[i] = s[j] => i = j

\* An event arrives whose file hash is already in processed_files.
SkippedEvent ==
    /\ hd.pc = "idle" /\ fs' = fs
    /\ hd'.file_path \in Paths
    /\ _get_file_hash(fs[hd'.file_path]) \in hd.processed_files

\* C17: the handler sends a file to the processor at most once per
\* distinct content hash; an event whose file hash is already in
\* processed_files causes no processing and no write to the store.
C17_OncePerHash ==
    /\ [](NoDuplicates(hd.invoked))
    /\ [][SkippedEvent =>
            /\ hd'.pc = "idle" /\ hd'.invoked = hd.invoked
            /\ pf' = pf /\ pdf' = pdf /\ calls' = calls /\ db' = db]_vars

C17_Witness ==
    /\ hd.pc = "idle" /\ hd.skipped
    /\ Len(hd.invoked) = 1
    /\ db.content # {}

----------------------------------------------------------------------------
(* Claims on the writers of the store (SpecUpload) *)

\* C19: after any sequence of process_file, process_pdf_with_claude,
\* uploads through the dashboard and delete_content, the file_id of every
\* content row is the id of a files row.
C19_ContentHasFile ==
    \A k \in db.content : \E f \in db.files : f.id = k.file_id

----------------------------------------------------------------------------
(* Claims on concurrent add_tags calls (SpecTags) *)

NamedBy(c) == {tg.conn[c].tags[k] : k \in 1..Len(tg.conn[c].tags)}

\* The committed content_tags rows that pair the content of c with a tags
\* row of this name.
Associations(c, name) ==
    {ct \in tg.db.content_tags :
        /\ ct[1] = tg.conn[c].content_id
        /\ \E t \in tg.db.tags : t.id = ct[2] /\ t.name = name}

----------------------------------------------------------------------------
(* Claims on the digests table (SpecDigest) *)

\* C21: a saved digest row never changes (kind, window, body, creation
\* time), and a generation that saves adds a row to the table, also when
\* it generates the same kind for the same period again.
C21_DigestsImmutable ==
    [][/\ Len(dg'.digests) >= Len(dg.digests)
       /\ \A i \in 1..Len(dg.digests) : dg'.digests[i] = dg.digests[i]
       /\ (dg'.last.ret = "dict" /\ dg'.last.fn \in {"weekly", "monthly"}
             => \/ Len(dg'.digests) = Len(dg.digests) + 1
                \/ dg' = dg)]_vars

\* The same kind was generated twice for the same period, at different
\* times.
C21_Witness ==
    \E i \in 1..Len(dg.digests), j \in 1..Len(dg.digests) :
        /\ i < j
        /\ dg.digests[i].digest_type = dg.digests[j].digest_type
        /\ dg.digests[i].start_date = dg.digests[j].start_date
        /\ dg.digests[i].end_date = dg.digests[j].end_date
        /\ dg.digests[i].created_date < dg.digests[j].created_date

----------------------------------------------------------------------------
(* Claims on the tasks of the store (SpecBacklog) *)

\* The step is a toggle of the dashboard.
IsToggle == BkToggleTask

\* C22: a task is created open; a step of the ingestion, of the backlog or
\* of the task list leaves the completed flag of every task as it is; a
\* step that changes the flag of a task is update_task_status, and no step
\* changes the text, the due date or the content link of a task.
C22_CompletionOnlyByToggle ==
    [][/\ \A u \in db'.tasks :
            (~\E t \in db.tasks : t.id = u.id) => ~u.completed
       /\ \A t \in db.tasks : \E u \in db'.tasks :
            /\ u.id = t.id
            /\ u.task_text = t.task_text
            /\ u.due_date = t.due_date
            /\ u.content_id = t.content_id
            /\ (u.completed # t.completed => IsToggle)]_vars

\* A task the backlog added next to a task that was ticked before.
C22_Witness ==
    /\ bk.runs >= 1 /\ bk.pc = "idle"
    /\ \E t, u \in db.tasks :
         /\ t.completed /\ t.id <= bk.tasks0
         /\ ~u.completed /\ u.id > bk.tasks0 /\ u.content_id = t.content_id


\* The last two process_backlog calls had reprocess=True, visited the same
\* content and got the same tasks and tags from the LLM.
SameRunAgain ==
    /\ bk.pc = "idle" /\ bk.reprocess
    /\ bk.prev # <<>> /\ bk.log = bk.prev

\* C30: when process_backlog(reprocess=True) has run again over the same
\* content with the same LLM tasks and tags, no task row the second run
\* added repeats the (content_id, task text) of a row that was there, and
\* no tag name has two rows.
C30_BacklogIdempotent ==
    SameRunAgain =>
        /\ \A u \in db.tasks : u.id > bk.tasks0 =>
             ~\E t \in db.tasks : /\ t.id <= bk.tasks0
                                  /\ t.content_id = u.content_id
                                  /\ t.task_text = u.task_text
        /\ \A a, b \in db.tags : a.name = b.name => a = b


----------------------------------------------------------------------------
(* Claims on the window of the weekly digest (SpecDigest) *)

\* The last call was NotesDigestApp.generate_weekly_digest at T = dg.now,
\* and it found content in its period.
AppWeeklyCall ==
    /\ dg.last.fn = "weekly" /\ dg.last.ret = "dict"
    /\ dg.last.end_date = dg.now - 1
    /\ ~dg.last.fallback

\* C23: the weekly digest the application generates at time T is built from
\* every content row processed in the 7 days before T, those of the last
\* 24 hours (dated today) included, and from no row older than that. Time
\* is counted in days: a row dated T - 7 may fall on either side of the
\* window and is left out of the statement.
C23_WeeklyWindow ==
    AppWeeklyCall =>
        \A c \in dg.content :
            /\ (dg.now - WeekDays < c.date /\ c.date <= dg.now
                  => c.id \in Range(dg.last.used))
            /\ (c.date < dg.now - WeekDays => c.id \notin Range(dg.last.used))


----------------------------------------------------------------------------
(* Claims on the page loop of the PDF recovery (SpecPdf) *)

\* The page images the backend that succeeded has rendered: every page
\* (pdf2image gives the list of all pages; PyMuPDF sets images_extracted
\* after the last page).
RenderedPages ==
    IF pdf.trace.first = "ok" \/ (pdf.trace.second = "ok" /\ pdf.images_extracted)
    THEN 1..Len(pdf.input.pages) ELSE {}

\* C24: when the pages were rendered, by pdf2image or by PyMuPDF, process
\* has called the OCR on every page image and the vision model on every
\* page image by the time it returns.
C24_EveryPageOcrAndVision ==
    pdf.pc = "done" =>
        /\ pdf.trace.ocr_calls = RenderedPages
        /\ pdf.trace.vision_calls = RenderedPages

\* C25: when pdf2image cannot be used for lack of a dependency (the module
\* is not installed, or Poppler is missing), PyMuPDF is tried; when it is
\* not available either, process goes on with the directly extracted text
\* and the outer handler is not reached.
C25_AlternateBackendTried ==
    pdf.trace.first \in {"import_error", "poppler_error"} =>
        /\ pdf.trace.second # "n/a"
        /\ (pdf.trace.second = "import_error" =>
              /\ pdf.extracted_text = pdf.direct_text
              /\ ~pdf.trace.outer_except)

\* The page loop was entered: PyMuPDF saved an image of every page.
PageLoopEntered ==
    pdf.trace.second = "ok" /\ pdf.images_extracted /\ pdf.page_images # <<>>

\* C26: in the page loop an OCR error or an empty vision answer on a page
\* stops neither the vision call on that page nor the OCR and the vision
\* call on the pages after it: when process returns, every page image has
\* had both calls.
C26_PageFailureIsolated ==
    /\ pdf.trace.ocr_raised \subseteq pdf.trace.ocr_calls
    /\ (pdf.pc = "done" /\ PageLoopEntered =>
          /\ pdf.trace.ocr_calls = Range(pdf.page_images)
          /\ pdf.trace.vision_calls = Range(pdf.page_images))

\* Two pages; the OCR raised on page 1 and the vision call on page 1 gave
\* nothing; page 2 was read by the vision model.
C26_Witness ==
    /\ pdf.pc = "done"
    /\ Len(pdf.page_images) = 2
    /\ pdf.trace.ocr_raised = {1}
    /\ pdf.vision_text = <<"Page", "2", "(analyzed by Claude):", NL>>
                           \o VisionText(2) \o <<NL, NL>>
    /\ pdf.trace.vision_calls = {1, 2}

----------------------------------------------------------------------------
(* Claims on the composition of raw_text (SpecPdf)                         *)

\* line 257: the directly extracted text and the OCR text, each under its
\* label.
DirectPlusOcr(direct_text, ocr_text) ==
    <<"Text extracted directly from PDF:", NL>> \o direct_text
    \o <<NL, NL, "Text extracted via OCR:", NL>> \o ocr_text

\* process returned from the normal path and raw_text is not the answer
\* of clean_extraction.
ComposedRawText ==
    pdf.pc = "done" /\ ~pdf.trace.outer_except /\ pdf.result.raw_text # CleanText

\* C27: raw_text of the result is never None and never empty; when it is
\* composed by process itself it is the page-labelled text of the image
\* analysis if any page was analysed by the vision model, else the labelled
\* concatenation of the direct text and the OCR text if both exist, else
\* the direct text, else the OCR text, else the placeholder.
C27_CompositionPrecedence ==
    /\ pdf.pc = "done" =>
         pdf.result.raw_text # None /\ pdf.result.raw_text # <<>>
    /\ ComposedRawText =>
         LET raw_text == pdf.result.raw_text
             V == pdf.vision_text # <<>>
             D == pdf.direct_text # <<>>
             O == pdf.ocr_text # <<>>
         IN  IF V THEN raw_text = pdf.combined_text
             ELSE IF D /\ O THEN raw_text = DirectPlusOcr(pdf.direct_text, pdf.ocr_text)
             ELSE IF D THEN raw_text = pdf.direct_text
             ELSE IF O THEN raw_text \in {OcrOnlyText(pdf.ocr_text), pdf.combined_text}
             ELSE raw_text = Placeholder

----------------------------------------------------------------------------
(* Claims on the order of the steps of process_file (Spec)                 *)

\* The place of a DatabaseManager call in process_file (lines 124-162).
StepRank(op) ==
    CASE op = "add_file" -> 1
      [] op = "add_content" -> 2
      [] op = "add_tags" -> 3
      [] op = "add_task" -> 4

\* The calls of the last process_file call are in the order add_file,
\* add_content, add_tags, add_task..., each of the first three at most
\* once.
WritesInOrder ==
    \A i, j \in DOMAIN pf.writes :
        i < j => \/ StepRank(pf.writes[i].op) < StepRank(pf.writes[j].op)
                 \/ (pf.writes[i].op = "add_task" /\ pf.writes[j].op = "add_task")

\* add_content only with the id add_file returned, add_tags and add_task
\* only with the id add_content returned.
WritesGuarded ==
    \A i \in DOMAIN pf.writes :
        /\ (i = 1) = (pf.writes[i].op = "add_file")
        /\ pf.writes[i].op = "add_content" =>
             /\ i = 2 /\ pf.file_id # 0 /\ pf.writes[i].id = pf.file_id
             /\ \E f \in db.files : f.id = pf.file_id
        /\ pf.writes[i].op \in {"add_tags", "add_task"} =>
             /\ pf.writes[2].op = "add_content"
             /\ pf.content_id # 0 /\ pf.writes[i].id = pf.content_id
             /\ \E k \in db.content : k.id = pf.content_id /\ k.file_id = pf.file_id

\* Every tag association and every task belongs to a stored content row.
NoOrphanTagOrTask ==
    /\ \A ct \in db.content_tags : \E k \in db.content : k.id = ct[1]
    /\ \A t \in db.tasks : \E k \in db.content : k.id = t.content_id

----------------------------------------------------------------------------
(* Claims on what the handler records (SpecHandler)                        *)

\* The hashes of the _process_file calls whose process_file has returned.
ReturnedHashes ==
    {hd.invoked[i] : i \in {j \in DOMAIN hd.invoked :
                              j < Len(hd.invoked) \/ hd.pc # "in_processor"}}

\* C29: when process_file returns, with True or with False, the hash the
\* handler computed for the event is in processed_files; no hash leaves
\* processed_files; so the hash of every call that returned is recorded,
\* and an event on a file whose bytes have a recorded hash, the bytes of a
\* failed file included, starts no processing.
C29_HashRecordedOnReturn ==
    /\ [](ReturnedHashes \subseteq hd.processed_files)
    /\ [][/\ (CallReturns => /\ pf'.ret \in {"True", "False"}
                             /\ hd.file_hash \in hd'.processed_files
                             /\ hd'.pc = "idle")
          /\ hd.processed_files \subseteq hd'.processed_files
          /\ (SkippedEvent => hd'.skipped /\ hd'.pc = "idle" /\ pf' = pf)]_vars

\* The extraction of a file failed, process_file returned False, and the
\* next event on the unchanged file was skipped.
C29_Witness ==
    /\ hd.pc = "idle" /\ hd.skipped
    /\ pf.ret = "False" /\ pf.out.none /\ ~pf.db_down
    /\ pf.c = fs[pf.file_path] /\ pf.c # Missing
    /\ md5(pf.c) \in hd.processed_files
    /\ db.files = {}

====
